---------------------------- MODULE Spec2Model ----------------------------
(***************************************************************************)
(* Model of the tile pipeline of vesavlad/tiles:                           *)
(*   - the parallel prepare scheduler  (prepare_tiles, prepare_manager),   *)
(*   - the database-level pack run      (pack_features(tile_db_handle&)),  *)
(*   - the per-tile feature packer      (pack_features(geo::tile, ...)),   *)
(*   - find_best_tile / make_quad_key,                                     *)
(*   - shift.                                                              *)
(* Each part has its own specification (SpecPrepare, SpecPackRun, ...);    *)
(* the variables of the other parts stay at their initial value.           *)
(***************************************************************************)
EXTENDS Integers, Sequences, FiniteSets, Bags, TLC

VARIABLES
  \* ---- prepare scheduler ------------------------------------------------
  features_idx,   \* keys of the features table: populated index tiles <<x, y>>
  tiles_db,       \* tiles table: set of <<tile key, bytes>>
  meta_db,        \* meta["max_prepared_z"]: NoMeta or [z, run]
  m,              \* the prepare_manager (without its mutex)
  mutex_,         \* prepare_manager::mutex_: 0 (free) or the worker holding it
  pc,             \* position of each worker thread
  batch,          \* each worker's current batch (sequence of prepare_task)
  task_i,         \* each worker's index into its batch in the render loop
  phase,          \* "idle" (no prepare_tiles call active) or "running"
  run,            \* number of prepare_tiles calls started so far
  shl_wraps,      \* the build: TRUE if an over-wide shift uses the count mod 32
  issued,         \* history: the tiles get_batch has issued in this run, in order
  puts,           \* history: bag of tile keys put by committed write txns of this run
  txn,            \* per worker: the transaction it has open: "none", "read", "write"
  loop_i,         \* the loop counter i of get_batch while a call is inside its loop
  \* ---- find_best_tile ---------------------------------------------------
  bt_root,        \* the index tile the descent starts at
  bt_geo,         \* feature.geometry_: the points of the feature
  bt_best,        \* the local variable best
  bt_pc,          \* "idle", "loop" (at the while test), "done" (returned), "fail" (verify threw)
  bt_path,        \* history: the values best has taken, in order
  \* ---- pack_features(tile, ...) ------------------------------------------
  pk_tile,        \* the index tile
  pk_strings,     \* the raw features collected for it
  pk_pc,          \* "idle", "bucket" (loop of line 137), "spans" (loop of line 152), "done", "fail"
  pk_i,           \* strings consumed by the loop of line 137
  pk_by_min_z,    \* features_by_min_z
  pk_b,           \* buckets consumed by the loop of line 152
  pk_buf,         \* p.buf_
  pk_quad_trees,  \* quad_trees
  \* ---- pack_features(handle) ---------------------------------------------
  db_features,        \* the committed features table: entries [key, val]
  rn_pc,              \* "idle", "collect", "sync", "writeback", "done", "fail", "interrupted", "fatal"
  rn_resume_key,      \* resume_key
  rn_packed_features, \* packed_features
  rn_ingested,        \* history: the raw features ingestion inserted
  rn_failures,        \* transactions of the run that raised an error
  \* ---- shift --------------------------------------------------------------
  sh_geo,         \* the geometry passed by reference
  sh_z,           \* the zoom level z
  sh_pc,          \* "idle", "call", "done"
  sh_in,          \* history: the geometry before the call
  \* ---- clip ---------------------------------------------------------------
  cl_bounds,  \* the bounds clipped against
  cl_in,  \* the geometry passed to clip
  cl_out,  \* the result of clip
  cl_pc, \* "idle", "call", "done"
  \* ---- tile_builder -------------------------------------------------------
  tb_spec,  \* tile_builder: z and draw bounds of the tile
  tb_builders,  \* builders_: layer name -> layer_builder
  tb_calls,  \* the features passed to add_feature so far
  tb_skipped,  \* "skip invalid feature" lines written
  tb_out,  \* result of finish()
  tb_pc, \* "idle", "open", "finished"
  \* ---- tiles-server -------------------------------------------------------
  sv_failing,  \* the tiles whose render throws
  sv_requests,  \* the requests received, in order
  sv_handled,  \* the requests whose handler has returned
  sv_replies,  \* for each request, the replies passed to its callback
  sv_pc  \* "idle", "listening"

prep_vars == <<features_idx, tiles_db, meta_db, m, mutex_, pc, batch, task_i,
               phase, run, shl_wraps, issued, puts, txn, loop_i>>

bt_vars == <<bt_root, bt_geo, bt_best, bt_pc, bt_path>>

pk_vars == <<pk_tile, pk_strings, pk_pc, pk_i, pk_by_min_z, pk_b, pk_buf, pk_quad_trees>>

rn_vars == <<db_features, rn_pc, rn_resume_key, rn_packed_features, rn_ingested,
            rn_failures>>

sh_vars == <<sh_geo, sh_z, sh_pc, sh_in>>

cl_vars == <<cl_bounds, cl_in, cl_out, cl_pc>>

tb_vars == <<tb_spec, tb_builders, tb_calls, tb_skipped, tb_out, tb_pc>>

sv_vars == <<sv_failing, sv_requests, sv_handled, sv_replies, sv_pc>>

vars == <<prep_vars, bt_vars, pk_vars, rn_vars, sh_vars, cl_vars, tb_vars, sv_vars>>

other_than_prep == <<bt_vars, pk_vars, rn_vars, sh_vars, cl_vars, tb_vars, sv_vars>>
other_than_bt   == <<prep_vars, pk_vars, rn_vars, sh_vars, cl_vars, tb_vars, sv_vars>>
other_than_pk   == <<prep_vars, bt_vars, rn_vars, sh_vars, cl_vars, tb_vars, sv_vars>>
other_than_rn   == <<prep_vars, bt_vars, pk_vars, sh_vars, cl_vars, tb_vars, sv_vars>>
other_than_sh   == <<prep_vars, bt_vars, pk_vars, rn_vars, cl_vars, tb_vars, sv_vars>>
other_than_cl == <<prep_vars, bt_vars, pk_vars, rn_vars, sh_vars, tb_vars, sv_vars>>
other_than_tb == <<prep_vars, bt_vars, pk_vars, rn_vars, sh_vars, cl_vars, sv_vars>>
other_than_sv == <<prep_vars, bt_vars, pk_vars, rn_vars, sh_vars, cl_vars, tb_vars>>

-----------------------------------------------------------------------------
(* Bounds of the model *)

NumWorkers == 2      \* std::thread::hardware_concurrency()
MaxPrepZ   == 2      \* largest max_zoomlevel argument tried
MaxRuns    == 2      \* prepare_tiles calls per behaviour
MaxOverrun == 2      \* tiles read past the end of an empty range before the model stops

Workers == 1 .. NumWorkers

-----------------------------------------------------------------------------
(* Arithmetic helpers *)

Pow2(n) == 2 ^ n

MinOf(S) == CHOOSE v \in S : \A u \in S : v <= u
MaxOf(S) == CHOOSE v \in S : \A u \in S : v >= u

\* F applied to the value of e, with e evaluated once
Once(F(_), e) == CHOOSE v \in { F(x) : x \in {e} } : TRUE

SeqToSet(s) == { s[i] : i \in 1 .. Len(s) }

NoDup(s) == \A i, j \in 1 .. Len(s) : i # j => s[i] # s[j]

-----------------------------------------------------------------------------
(* geo::tile and tile ranges *)

kTileDefaultIndexZoomLvl == 10

Tile(z, x, y) == [z |-> z, x |-> x, y |-> y]

\* bit interleaving of x and y (x on the even bits)
RECURSIVE Interleave(_, _)
Interleave(x, y) ==
  IF x = 0 /\ y = 0 THEN 0
  ELSE (x % 2) + 2 * (y % 2) + 4 * Interleave(x \div 2, y \div 2)

RECURSIVE Deinterleave(_)
Deinterleave(k) ==
  IF k = 0 THEN <<0, 0>>
  ELSE LET r == Deinterleave(k \div 4)
       IN  <<2 * r[1] + (k % 2), 2 * r[2] + ((k \div 2) % 2)>>

\* (z << 58) | interleave(x, y), kept as the pair <<high 6 bits, low 58 bits>>
make_tile_key(t) == <<t.z, Interleave(t.x, t.y)>>

tile_key_to_tile(k) == Tile(k[1], Deinterleave(k[2])[1], Deinterleave(k[2])[2])

\* geo::make_tile_range(minx, miny, maxx, maxy, z) over the folded corners;
\* with no entry the corners stay at (UINT32_MAX, UINT32_MAX, 0, 0): inverted.
make_tile_range(S) ==
  IF S = {} THEN [inverted |-> TRUE, minx |-> 0, miny |-> 0, maxx |-> 0, maxy |-> 0]
  ELSE [inverted |-> FALSE,
        minx |-> MinOf({ t[1] : t \in S }), miny |-> MinOf({ t[2] : t \in S }),
        maxx |-> MaxOf({ t[1] : t \in S }), maxy |-> MaxOf({ t[2] : t \in S })]

\* geo::tile_range_on_z: the range projected to zoom z, as origin and extent
tile_range_on_z(r, z) ==
  IF r.inverted THEN [z |-> z, x0 |-> 0, y0 |-> 0, w |-> 0, h |-> 0]
  ELSE IF z <= kTileDefaultIndexZoomLvl
  THEN LET d == Pow2(kTileDefaultIndexZoomLvl - z)
       IN  [z |-> z, x0 |-> r.minx \div d, y0 |-> r.miny \div d,
            w |-> (r.maxx \div d) - (r.minx \div d) + 1,
            h |-> (r.maxy \div d) - (r.miny \div d) + 1]
  ELSE LET d == Pow2(z - kTileDefaultIndexZoomLvl)
       IN  [z |-> z, x0 |-> r.minx * d, y0 |-> r.miny * d,
            w |-> (r.maxx - r.minx + 1) * d,
            h |-> (r.maxy - r.miny + 1) * d]

RangeLen(cr) == cr.w * cr.h

\* *it for the iterator begin + k of a range (row by row); on an empty range the
\* iterator keeps walking along its row
RangeAt(cr, k) ==
  IF cr.w = 0 THEN Tile(cr.z, cr.x0 + k, cr.y0)
  ELSE Tile(cr.z, cr.x0 + (k % cr.w), cr.y0 + (k \div cr.w))

RangeTiles(cr) == { RangeAt(cr, k) : k \in 0 .. RangeLen(cr) - 1 }

\* does tile t cover, or lie within, the index tile <<x, y>>
Intersects(t, it) ==
  IF t.z <= kTileDefaultIndexZoomLvl
  THEN LET d == Pow2(kTileDefaultIndexZoomLvl - t.z)
       IN  it[1] \div d = t.x /\ it[2] \div d = t.y
  ELSE LET d == Pow2(t.z - kTileDefaultIndexZoomLvl)
       IN  t.x \div d = it[1] /\ t.y \div d = it[2]


-----------------------------------------------------------------------------
(* tile_spec, bounding_box, find_best_tile *)

kMaxZoomLevel == 20
kTileSize     == 4096

Box(minx, miny, maxx, maxy) == [minx |-> minx, miny |-> miny, maxx |-> maxx, maxy |-> maxy]

\* bounding_box of a non-null geometry given by its points <<x, y>>
bounding_box(pts) ==
  Box(MinOf({ pts[i][1] : i \in 1 .. Len(pts) }), MinOf({ pts[i][2] : i \in 1 .. Len(pts) }),
      MaxOf({ pts[i][1] : i \in 1 .. Len(pts) }), MaxOf({ pts[i][2] : i \in 1 .. Len(pts) }))

\* tile_spec{t}.insert_bounds_: the pixel bounds of the tile, not expanded
insert_bounds(t) ==
  LET s == kTileSize * Pow2(kMaxZoomLevel - t.z)
  IN  Box(t.x * s, t.y * s, (t.x + 1) * s, (t.y + 1) * s)

\* geo::tile::direct_children, in iteration order
direct_children(t) ==
  << Tile(t.z + 1, 2 * t.x, 2 * t.y),     Tile(t.z + 1, 2 * t.x + 1, 2 * t.y),
     Tile(t.z + 1, 2 * t.x, 2 * t.y + 1), Tile(t.z + 1, 2 * t.x + 1, 2 * t.y + 1) >>

\* geo::tile::parent, geo::tile::quad_pos
parent(t) == Tile(t.z - 1, t.x \div 2, t.y \div 2)

quad_pos(t) == 2 * (t.y % 2) + (t.x % 2)

\* mutant: the test of the x axis is missing
ChildMatchesYOnly(fb, tb) ==
  ~ (fb.maxy < tb.miny \/ fb.miny > tb.maxy)

\* the child is not skipped by the continue of the for loop
ChildMatches(fb, tb) ==
  ~ ( (fb.maxx < tb.minx \/ fb.minx > tb.maxx)
      \/ (fb.maxy < tb.miny \/ fb.miny > tb.maxy) )

\* mutant: on the second match the first matching child is returned
WhileBodyTakesChild(best, fb) ==
  LET ms == SelectSeq(direct_children(best), LAMBDA c : ChildMatches(fb, insert_bounds(c)))
  IN  IF Len(ms) >= 2 THEN [k |-> "return", tile |-> ms[1]]
      ELSE IF Len(ms) = 0 THEN [k |-> "fail", tile |-> best]
      ELSE [k |-> "next", tile |-> ms[1]]

\* mutant: the for loop leaves out the first child
WhileBodySkipsFirst(best, fb) ==
  LET ms == SelectSeq(Tail(direct_children(best)),
                      LAMBDA c : ChildMatches(fb, insert_bounds(c)))
  IN  IF Len(ms) >= 2 THEN [k |-> "return", tile |-> best]
      ELSE IF Len(ms) = 0 THEN [k |-> "fail", tile |-> best]
      ELSE [k |-> "next", tile |-> ms[1]]

\* one pass of the while body: return best (second match), throw (no match),
\* or best = *next_best
WhileBody(best, fb) ==
  LET ms == SelectSeq(direct_children(best), LAMBDA c : ChildMatches(fb, insert_bounds(c)))
  IN  IF Len(ms) >= 2 THEN [k |-> "return", tile |-> best]
      ELSE IF Len(ms) = 0 THEN [k |-> "fail", tile |-> best]
      ELSE [k |-> "next", tile |-> ms[1]]

\* find_best_tile(root, feature), fb the bounding box of the feature:
\* [ok, tile]; ok is FALSE when verify throws
RECURSIVE BestFrom(_, _)
BestFrom(best, fb) ==
  IF best.z >= kMaxZoomLevel THEN [ok |-> TRUE, tile |-> best]
  ELSE Once(LAMBDA r : IF r.k = "return" THEN [ok |-> TRUE, tile |-> best]
                       ELSE IF r.k = "fail" THEN [ok |-> FALSE, tile |-> best]
                       ELSE BestFrom(r.tile, fb),
            WhileBody(best, fb))

find_best_tile(root, pts) == BestFrom(root, bounding_box(pts))

-----------------------------------------------------------------------------
(* feature records: deserialize_feature, serialize_feature *)

\* a raw serialized feature (std::string) of the features table: the id, the
\* first zoom level, the points of the geometry and the length in bytes of its
\* encoding with meta strings written out; wellformed is FALSE for bytes that
\* do not decode
RawFeature(id, minz, pts, n, wellformed) ==
  [raw |-> TRUE, id |-> id, minz |-> minz, pts |-> pts, n |-> n, wellformed |-> wellformed]

\* deserialize_feature(str, coding_vec): std::optional<feature>
deserialize_feature(str) ==
  IF str.wellformed
  THEN [has |-> TRUE,
        feature |-> [id_ |-> str.id, zoom_levels_ |-> <<str.minz, kMaxZoomLevel>>,
                     geometry_ |-> str.pts, n |-> str.n]]
  ELSE [has |-> FALSE, feature |-> [id_ |-> 0, zoom_levels_ |-> <<0, 0>>, geometry_ |-> <<>>, n |-> 0]]

\* serialize_feature(feature, coding_map, false): the payload written to the
\* pack, meta strings replaced by dictionary indices
serialize_feature(f) ==
  [raw |-> FALSE, id |-> f.id_, minz |-> f.zoom_levels_[1], pts |-> f.geometry_, n |-> f.n]

-----------------------------------------------------------------------------
(* struct packer: buf_ as the sequence of the items written, each with its
   length in bytes *)

\* protozero::write_varint writes 7 bits per byte
VarintLen(v) ==
  IF v < 128 THEN 1 ELSE IF v < 16384 THEN 2 ELSE IF v < 2097152 THEN 3
  ELSE IF v < 268435456 THEN 4 ELSE 5

U32(v)      == [k |-> "u32", v |-> v, n |-> 4]
Varint(v)   == [k |-> "varint", v |-> v, n |-> VarintLen(v)]
Bytes(s, n) == [k |-> "bytes", v |-> s, n |-> n]

\* buf_.size()
RECURSIVE BufSize(_)
BufSize(buf) == IF buf = <<>> THEN 0 ELSE buf[1].n + BufSize(Tail(buf))

\* packer::packer(feature_count)
packer(feature_count) == << U32(feature_count), U32(0) >>

\* packer::write_index_offset: write_nth<uint32_t>(buf_.data(), 1, offset)
write_index_offset(buf, offset) == [buf EXCEPT ![2] = U32(offset)]

\* the loop of packer::append_span; ok is FALSE when verify throws
RECURSIVE SpanLoop(_, _)
SpanLoop(buf, feats) ==
  IF feats = <<>> THEN [ok |-> TRUE, buf |-> Append(buf, Varint(0))]
  ELSE IF ~ (Head(feats).feature_.n >= 32) THEN [ok |-> FALSE, buf |-> buf]
  ELSE SpanLoop(buf \o << Varint(Head(feats).feature_.n),
                          Bytes(Head(feats).feature_, Head(feats).feature_.n) >>,
                Tail(feats))

\* packer::append_span(begin, end): [ok, buf, offset]
append_span(buf, feats) ==
  LET r == SpanLoop(buf, feats)
  IN  [ok |-> r.ok, buf |-> r.buf, offset |-> BufSize(buf)]

\* packer::append_packed(vec): [buf, offset]
append_packed(buf, vec) ==
  [buf |-> buf \o [i \in 1 .. Len(vec) |-> Varint(vec[i])], offset |-> BufSize(buf)]

\* mutant: the offset is taken after the string is appended
appendOffsetAfter(buf, string) ==
  [buf |-> Append(buf, Bytes(string, string.n)),
   offset |-> BufSize(Append(buf, Bytes(string, string.n)))]

\* packer::append(string): [buf, offset]
append(buf, string) ==
  [buf |-> Append(buf, Bytes(string, string.n)), offset |-> BufSize(buf)]

-----------------------------------------------------------------------------
(* make_quad_key, packable_feature, utl::equal_ranges, make_quad_tree *)

\* the trace of make_quad_key before std::reverse: tile, its parent, ..., the
\* child of root; ok is FALSE when verify(trace.back().z_ > root.z_) throws
RECURSIVE TraceUp(_, _)
TraceUp(root, t) ==
  IF t.z > 0 /\ parent(t) = root THEN [ok |-> TRUE, trace |-> <<t>>]
  ELSE IF ~ (t.z > root.z) THEN [ok |-> FALSE, trace |-> <<>>]
  ELSE Once(LAMBDA r : [ok |-> r.ok, trace |-> <<t>> \o r.trace],
            TraceUp(root, parent(t)))

Reverse(s) == [i \in 1 .. Len(s) |-> s[Len(s) + 1 - i]]

\* mutant: the trace is not reversed
make_quad_key_unreversed(root, tile) ==
  IF tile = root THEN [ok |-> TRUE, key |-> <<>>]
  ELSE LET r == TraceUp(root, tile)
           trace == r.trace \o <<root>>
       IN  [ok |-> r.ok, key |-> [i \in 1 .. Len(trace) |-> quad_pos(trace[i])]]

\* make_quad_key(root, tile): [ok, key]
make_quad_key(root, tile) ==
  IF tile = root THEN [ok |-> TRUE, key |-> <<>>]
  ELSE LET r == TraceUp(root, tile)
           trace == Reverse(r.trace \o <<root>>)
       IN  [ok |-> r.ok, key |-> [i \in 1 .. Len(trace) |-> quad_pos(trace[i])]]

packable_feature(quad_key, best_tile, feature) ==
  [quad_key_ |-> quad_key, best_tile_ |-> best_tile, feature_ |-> feature]

\* operator< of std::vector<uint8_t>
RECURSIVE LexLess(_, _)
LexLess(a, b) ==
  IF b = <<>> THEN FALSE
  ELSE IF a = <<>> THEN TRUE
  ELSE IF a[1] # b[1] THEN a[1] < b[1]
  ELSE LexLess(Tail(a), Tail(b))

\* the less passed to utl::equal_ranges (line 161)
QuadKeyLess(a, b) == LexLess(a.quad_key_, b.quad_key_)

\* the orders std::sort may leave the vector in: every arrangement of its
\* elements in which no element is less than an earlier one
SortedOrders(feats) ==
  LET n == Len(feats)
      perms == { p \in [1 .. n -> 1 .. n] : \A i, j \in 1 .. n : i # j => p[i] # p[j] }
  IN  { [i \in 1 .. n |-> feats[p[i]]] : p \in
          { q \in perms : \A i, j \in 1 .. n : i < j => ~ QuadKeyLess(feats[q[j]], feats[q[i]]) } }

\* mutant: every element is a range of its own
EqualRangesSingle(sorted) == [i \in 1 .. Len(sorted) |-> << sorted[i] >>]

\* the ranges [lb, ub) of equal elements of a sorted vector, in order
RECURSIVE EqualRanges(_)
EqualRanges(sorted) ==
  IF sorted = <<>> THEN <<>>
  ELSE LET ub == CHOOSE u \in 1 .. Len(sorted) :
                   /\ \A i \in 1 .. u : ~ QuadKeyLess(sorted[1], sorted[i])
                   /\ u < Len(sorted) => QuadKeyLess(sorted[1], sorted[u + 1])
       IN  << SubSeq(sorted, 1, ub) >> \o EqualRanges(SubSeq(sorted, ub + 1, Len(sorted)))

\* make_quad_tree(root, input): the directory of one bucket; it lists the
\* inputs and is not empty when the input is not
make_quad_tree(root, input) ==
  [k |-> "quad_tree", root |-> root, entries |-> input, n |-> 4 + 12 * Len(input)]

\* quad_trees.emplace_back() of an empty bucket
EmptyString == [k |-> "quad_tree", root |-> Tile(0, 0, 0), entries |-> <<>>, n |-> 0]

-----------------------------------------------------------------------------
(* pack_features(tile, coding_vec, coding_map, strings) *)

\* mutant: every feature is put into the first bucket
min_z_bucket_first(tile, f) == 0

\* line 144: std::max(tile.z_, feature->zoom_levels_.first) - tile.z_
min_z_bucket(tile, f) == MaxOf({tile.z, f.zoom_levels_[1]}) - tile.z

\* one pass of the loop of lines 137-147: [ok, by_min_z]; ok is FALSE when a
\* verify or std::vector::at throws
BucketFeature(tile, by_min_z, str) ==
  LET d    == deserialize_feature(str)
      str2 == serialize_feature(d.feature)
      best == find_best_tile(tile, d.feature.geometry_)
      z    == min_z_bucket(tile, d.feature)
      qk   == make_quad_key(tile, best.tile)
  IN  IF ~ d.has THEN [ok |-> FALSE, by_min_z |-> by_min_z]
      ELSE IF ~ best.ok THEN [ok |-> FALSE, by_min_z |-> by_min_z]
      ELSE IF ~ (z < Len(by_min_z)) THEN [ok |-> FALSE, by_min_z |-> by_min_z]
      ELSE IF ~ qk.ok THEN [ok |-> FALSE, by_min_z |-> by_min_z]
      ELSE [ok |-> TRUE,
            by_min_z |-> [by_min_z EXCEPT ![z + 1] =
                            Append(@, packable_feature(qk.key, best.tile, str2))]]

\* the callback of utl::equal_ranges over the ranges (lines 162-165):
\* [ok, buf, input]
RECURSIVE AppendSpans(_, _, _)
AppendSpans(buf, ranges, input) ==
  IF ranges = <<>> THEN [ok |-> TRUE, buf |-> buf, input |-> input]
  ELSE Once(LAMBDA r :
              IF ~ r.ok THEN [ok |-> FALSE, buf |-> buf, input |-> input]
              ELSE AppendSpans(r.buf, Tail(ranges),
                               Append(input, [tile |-> Head(ranges)[1].best_tile_,
                                              offset |-> r.offset, count |-> 1])),
            append_span(buf, Head(ranges)))

\* one pass of the loop of lines 152-168 over a bucket that std::sort left in
\* the order sorted: [ok, buf, quad_trees]
PackBucket(tile, buf, quad_trees, sorted) ==
  IF sorted = <<>>
  THEN [ok |-> TRUE, buf |-> buf, quad_trees |-> Append(quad_trees, EmptyString)]
  ELSE Once(LAMBDA r : [ok |-> r.ok, buf |-> r.buf,
                        quad_trees |-> Append(quad_trees, make_quad_tree(tile, r.input))],
            AppendSpans(buf, EqualRanges(sorted), <<>>))

\* utl::to_vec(quad_trees, ...) of lines 170-172: [buf, vec]
RECURSIVE AppendQuadTrees(_, _, _)
AppendQuadTrees(buf, quad_trees, vec) ==
  IF quad_trees = <<>> THEN [buf |-> buf, vec |-> vec]
  ELSE IF Head(quad_trees).n = 0
       THEN AppendQuadTrees(buf, Tail(quad_trees), Append(vec, 0))
       ELSE Once(LAMBDA r : AppendQuadTrees(r.buf, Tail(quad_trees), Append(vec, r.offset)),
                 append(buf, Head(quad_trees)))

\* lines 169-173: the blobs, the index array, the index offset
PackIndex(buf, quad_trees) ==
  LET q == AppendQuadTrees(buf, quad_trees, <<>>)
      r == append_packed(q.buf, q.vec)
  IN  write_index_offset(r.buf, r.offset)

\* the loops of pack_features as functions, std::sort leaving each bucket in
\* one of the orders it may
RECURSIVE BucketAll(_, _, _)
BucketAll(tile, by_min_z, strings) ==
  IF strings = <<>> THEN [ok |-> TRUE, by_min_z |-> by_min_z]
  ELSE Once(LAMBDA r : IF ~ r.ok THEN r ELSE BucketAll(tile, r.by_min_z, Tail(strings)),
            BucketFeature(tile, by_min_z, Head(strings)))

RECURSIVE PackAll(_, _, _, _)
PackAll(tile, buf, quad_trees, by_min_z) ==
  IF by_min_z = <<>> THEN [ok |-> TRUE, buf |-> PackIndex(buf, quad_trees)]
  ELSE Once(LAMBDA r : IF ~ r.ok THEN [ok |-> FALSE, buf |-> buf]
                       ELSE PackAll(tile, r.buf, r.quad_trees, Tail(by_min_z)),
            PackBucket(tile, buf, quad_trees,
                       CHOOSE s \in SortedOrders(Head(by_min_z)) : TRUE))

\* pack_features(tile, coding_vec, coding_map, strings): [ok, buf]
pack_features(tile, strings) ==
  Once(LAMBDA b : IF ~ b.ok THEN [ok |-> FALSE, buf |-> <<>>]
                  ELSE PackAll(tile, packer(Len(strings)), <<>>, b.by_min_z),
       BucketAll(tile, [z \in 1 .. kMaxZoomLevel + 1 - tile.z |-> <<>>], strings))

-----------------------------------------------------------------------------
(* pack_features(handle): the features table and the two transactions of a
   batch *)

kPackBatchThreshold == 64 * 1024 * 1024

\* make_feature_key(tile) and the keys of the entries inserted for a tile
FeatureKey(t, idx) == <<Interleave(t.x, t.y), idx>>

make_feature_key(t) == FeatureKey(t, 0)

feature_key_to_tile(key) ==
  Tile(kTileDefaultIndexZoomLvl, Deinterleave(key[1])[1], Deinterleave(key[1])[2])

\* the order of the keys of the table
KeyLess(a, b) == a[1] < b[1] \/ (a[1] = b[1] /\ a[2] < b[2])

\* std::optional<tile_index_t>{} and the tile of lines 192-194, which no
\* entry has
NoKey  == <<-1, -1>>
NoTile == Tile(-1, -1, -1)

\* an entry of raw features and an entry holding a pack
RawEntry(key, strings) == [key |-> key, val |-> [k |-> "raw", strings |-> strings]]
PackEntry(key, buf)    == [key |-> key, val |-> [k |-> "pack", buf |-> buf]]

\* unpack_features(el->second, ...) of a raw entry
unpack_features(val) == val.strings

\* the entries a cursor visits from FIRST, or from SET_RANGE of a key, with NEXT
RECURSIVE InKeyOrder(_)
InKeyOrder(S) ==
  IF S = {} THEN <<>>
  ELSE Once(LAMBDA e : <<e>> \o InKeyOrder(S \ {e}),
            CHOOSE e \in S : \A o \in S : ~ KeyLess(o.key, e.key))

\* mutant: the cursor always starts at the first entry
CursorFromFirst(db, resume_key) == InKeyOrder(db)

CursorFrom(db, resume_key) ==
  InKeyOrder({ e \in db : resume_key = NoKey \/ ~ KeyLess(e.key, resume_key) })

\* the for loop of lines 203-233 and the if of lines 235-239:
\* [ok, packed_features, deleted, resume_key]; ok is FALSE when pack_features
\* throws, which leaves the transaction uncommitted
RECURSIVE CollectLoop(_, _, _, _, _, _)
CollectLoop(els, tile, features, packed_features, packed_features_size, deleted) ==
  IF els # <<>> /\ tile = feature_key_to_tile(Head(els).key)
  THEN CollectLoop(Tail(els), tile, features \o unpack_features(Head(els).val),
                   packed_features, packed_features_size, deleted \cup {Head(els).key})
  ELSE Once(LAMBDA last :
              LET with_last == IF features = <<>> THEN packed_features
                               ELSE Append(packed_features, <<make_feature_key(tile), last.buf>>)
              IN  IF els = <<>>
                  THEN [ok |-> last.ok, packed_features |-> with_last, deleted |-> deleted,
                        resume_key |-> NoKey]
                  ELSE IF packed_features_size >= kPackBatchThreshold
                  THEN [ok |-> last.ok, packed_features |-> with_last, deleted |-> deleted,
                        resume_key |-> Head(els).key]
                  ELSE IF ~ last.ok
                  THEN [ok |-> FALSE, packed_features |-> packed_features,
                        deleted |-> deleted, resume_key |-> NoKey]
                  ELSE CollectLoop(Tail(els), feature_key_to_tile(Head(els).key),
                                   unpack_features(Head(els).val), with_last,
                                   IF features = <<>> THEN packed_features_size
                                   ELSE packed_features_size + BufSize(last.buf),
                                   deleted \cup {Head(els).key}),
            IF features = <<>> THEN [ok |-> TRUE, buf |-> <<>>]
            ELSE pack_features(tile, features))

\* the collect transaction of a batch (lines 187-242)
collect_features(db, resume_key) ==
  CollectLoop(CursorFrom(db, resume_key), NoTile, <<>>, <<>>, 0, {})

\* txn.put(feature_dbi, key, data) for every packed feature (lines 249-251)
RECURSIVE WritebackAll(_, _)
WritebackAll(db, packed_features) ==
  IF packed_features = <<>> THEN db
  ELSE WritebackAll({ e \in db : e.key # Head(packed_features)[1] }
                      \cup { PackEntry(Head(packed_features)[1], Head(packed_features)[2]) },
                    Tail(packed_features))

-----------------------------------------------------------------------------
(* shift(fixed_geometry&, z) *)

\* the alternatives of fixed_geometry
NullGeometry     == [kind |-> "null"]
PointGeometry(p) == [kind |-> "point", xy |-> p]
Polyline(lines)  == [kind |-> "polyline", geometry_ |-> lines]
Polygon(rings)   == [kind |-> "polygon", geometry_ |-> rings]

\* mutant: the coordinate is not shifted
ShiftRightNot(v, d) == v

\* v >> d of a signed coordinate
ShiftRight(v, d) == v \div Pow2(d)

\* shift(fixed_xy&, delta_z)
shift_xy(point, delta_z) == << ShiftRight(point[1], delta_z), ShiftRight(point[2], delta_z) >>

\* shift(fixed_polyline&, delta_z)
shift_polyline(polyline, delta_z) ==
  Polyline([l \in 1 .. Len(polyline.geometry_) |->
             [i \in 1 .. Len(polyline.geometry_[l]) |->
               shift_xy(polyline.geometry_[l][i], delta_z)]])

\* shift(fixed_polygon&, delta_z): the body is empty
shift_polygon(polygon, delta_z) == polygon

\* shift(fixed_geometry&, z): the geometry after the call
shift(geometry, z) ==
  LET delta_z == 20 - z
  IN  CASE geometry.kind = "null"     -> geometry
        [] geometry.kind = "point"    -> PointGeometry(shift_xy(geometry.xy, delta_z))
        [] geometry.kind = "polyline" -> shift_polyline(geometry, delta_z)
        [] geometry.kind = "polygon"  -> shift_polygon(geometry, delta_z)

-----------------------------------------------------------------------------
(* clip(geometry, bounds): point and polyline *)

\* mutant: the boundary of the box is outside
clip_point_open(p, b) ==
  IF b.minx < p[1] /\ p[1] < b.maxx /\ b.miny < p[2] /\ p[2] < b.maxy
  THEN PointGeometry(p) ELSE NullGeometry

\* clip of a point: kept when within the closed box
clip_point(p, b) ==
  IF b.minx <= p[1] /\ p[1] <= b.maxx /\ b.miny <= p[2] /\ p[2] <= b.maxy
  THEN PointGeometry(p) ELSE NullGeometry

\* a parameter of a segment as a fraction <<numerator, denominator>>,
\* denominator positive
FracLess(a, b) == a[1] * b[2] < b[1] * a[2]

RejectedSegment == [ok |-> FALSE, t0 |-> <<0, 1>>, t1 |-> <<1, 1>>]

\* mutant: a segment parallel to an edge and beyond it is not rejected
ClipEdgeKeepsParallel(st, p, q) ==
  IF ~ st.ok THEN st
  ELSE IF p = 0 THEN st
  ELSE IF p < 0
       THEN IF FracLess(st.t1, <<-q, -p>>) THEN RejectedSegment
            ELSE IF FracLess(st.t0, <<-q, -p>>) THEN [st EXCEPT !.t0 = <<-q, -p>>] ELSE st
       ELSE IF FracLess(<<q, p>>, st.t0) THEN RejectedSegment
            ELSE IF FracLess(<<q, p>>, st.t1) THEN [st EXCEPT !.t1 = <<q, p>>] ELSE st

\* Liang-Barsky, one edge of the box: the segment enters (p < 0) or leaves
\* (p > 0) the half plane at parameter q / p
ClipEdge(st, p, q) ==
  IF ~ st.ok THEN st
  ELSE IF p = 0 THEN (IF q < 0 THEN RejectedSegment ELSE st)
  ELSE IF p < 0
       THEN IF FracLess(st.t1, <<-q, -p>>) THEN RejectedSegment
            ELSE IF FracLess(st.t0, <<-q, -p>>) THEN [st EXCEPT !.t0 = <<-q, -p>>] ELSE st
       ELSE IF FracLess(<<q, p>>, st.t0) THEN RejectedSegment
            ELSE IF FracLess(<<q, p>>, st.t1) THEN [st EXCEPT !.t1 = <<q, p>>] ELSE st

\* Liang-Barsky for the segment a -> c: [ok, a, c], the clipped segment
clip_segment(a, c, b) ==
  LET dx == c[1] - a[1]
      dy == c[2] - a[2]
      st == ClipEdge(ClipEdge(ClipEdge(ClipEdge([ok |-> TRUE, t0 |-> <<0, 1>>, t1 |-> <<1, 1>>],
                                                -dx, a[1] - b.minx),
                                       dx, b.maxx - a[1]),
                              -dy, a[2] - b.miny),
                     dy, b.maxy - a[2])
      At(t) == << a[1] + (t[1] * dx) \div t[2], a[2] + (t[1] * dy) \div t[2] >>
  IN  [ok |-> st.ok, a |-> At(st.t0), c |-> At(st.t1)]

\* the segments of one line, clipped, kept segments that share an endpoint
\* coalesced: the rings gathered so far and the ring being built
RECURSIVE ClipLine(_, _, _, _)
ClipLine(line, b, rings, ring) ==
  IF Len(line) < 2 THEN (IF ring = <<>> THEN rings ELSE Append(rings, ring))
  ELSE Once(LAMBDA s :
         IF ~ s.ok
         THEN ClipLine(Tail(line), b, IF ring = <<>> THEN rings ELSE Append(rings, ring), <<>>)
         ELSE IF ring # <<>> /\ ring[Len(ring)] = s.a
         THEN ClipLine(Tail(line), b, rings, Append(ring, s.c))
         ELSE ClipLine(Tail(line), b, IF ring = <<>> THEN rings ELSE Append(rings, ring),
                       <<s.a, s.c>>),
         clip_segment(line[1], line[2], b))

RECURSIVE ClipLines(_, _)
ClipLines(lines, b) ==
  IF lines = <<>> THEN <<>> ELSE ClipLine(Head(lines), b, <<>>, <<>>) \o ClipLines(Tail(lines), b)

\* clip of a polyline: null when no segment is kept
clip_polyline(polyline, b) ==
  Once(LAMBDA rings : IF rings = <<>> THEN NullGeometry ELSE Polyline(rings),
       ClipLines(polyline.geometry_, b))

\* clip(geometry, bounds)
clip(geometry, b) ==
  CASE geometry.kind = "null"     -> NullGeometry
    [] geometry.kind = "point"    -> clip_point(geometry.xy, b)
    [] geometry.kind = "polyline" -> clip_polyline(geometry, b)

-----------------------------------------------------------------------------
(* tile_builder: layers, features, key and value tables *)

\* std::string values are modelled as the sequences of their bytes
kLayerKey       == <<108, 97, 121, 101, 114>>   \* "layer"
kInternalPrefix == <<95, 95>>                   \* "__"

\* boost::starts_with(str, prefix)
starts_with(str, prefix) ==
  Len(str) >= Len(prefix) /\ SubSeq(str, 1, Len(prefix)) = prefix

\* the keys of a std::map<std::string, ...> in iteration order
RECURSIVE MapOrder(_)
MapOrder(S) ==
  IF S = {} THEN <<>>
  ELSE LET first == CHOOSE k \in S : \A o \in S \ {k} : LexLess(k, o)
       IN  <<first>> \o MapOrder(S \ {first})

\* feature: meta_ is a map from keys to values
Feature(meta, geometry) == [meta_ |-> meta, geometry_ |-> geometry]

\* utl::get_or_create_index(cache, key); a cache is modelled as the sequence
\* of its keys, the key at position i having index i - 1
get_or_create_index(cache, key) ==
  IF \E i \in 1 .. Len(cache) : cache[i] = key
  THEN [cache |-> cache,
        index |-> (CHOOSE i \in 1 .. Len(cache) : cache[i] = key) - 1]
  ELSE [cache |-> Append(cache, key), index |-> Len(cache)]

\* simplify(geometry, z) of a null or point geometry
simplify(geometry, z) == geometry

\* layer_builder::layer_builder(name, spec, cfg)
layer_builder(name) ==
  [ version           |-> 2,
    name              |-> name,
    extent            |-> kTileSize,
    has_geometry_     |-> FALSE,
    features          |-> <<>>,
    meta_key_cache_   |-> <<>>,
    meta_value_cache_ |-> <<>> ]

\* layer_builder::write_geometry: FALSE when nothing is left after the clip
write_geometry(spec, pristine_geometry) ==
  LET geometry == clip(simplify(pristine_geometry, spec.z), spec.draw_bounds_)
  IN  IF geometry.kind = "null"
      THEN [ok |-> FALSE, geometry |-> geometry]
      ELSE [ok |-> TRUE,  geometry |-> shift(geometry, spec.z)]

\* the loop of layer_builder::write_metadata over the entries not yet visited
RECURSIVE MetadataLoop(_, _, _)
MetadataLoop(st, meta, keys) ==
  IF keys = <<>> THEN st
  ELSE LET key == Head(keys)
       IN  IF key = kLayerKey \/ starts_with(key, kInternalPrefix)
           THEN MetadataLoop(st, meta, Tail(keys))
           ELSE LET k == get_or_create_index(st.meta_key_cache_, key)
                    v == get_or_create_index(st.meta_value_cache_, meta[key])
                IN  MetadataLoop([ meta_key_cache_   |-> k.cache,
                                   meta_value_cache_ |-> v.cache,
                                   t |-> st.t \o <<k.index, v.index>> ],
                                 meta, Tail(keys))

\* mutant: the value index is written before the key index
write_metadata_value_first(lb, meta) ==
  LET r == MetadataLoop([ meta_key_cache_   |-> lb.meta_key_cache_,
                          meta_value_cache_ |-> lb.meta_value_cache_,
                          t |-> <<>> ],
                        meta, MapOrder(DOMAIN meta))
  IN  [r EXCEPT !.t = Reverse(r.t)]

\* layer_builder::write_metadata
write_metadata(lb, meta) ==
  MetadataLoop([ meta_key_cache_   |-> lb.meta_key_cache_,
                 meta_value_cache_ |-> lb.meta_value_cache_,
                 t |-> <<>> ],
               meta, MapOrder(DOMAIN meta))

\* mutant: the metadata is written before the geometry is looked at
layer_add_feature_meta_first(lb, spec, f) ==
  LET g == write_geometry(spec, f.geometry_)
      md == write_metadata(lb, f.meta_)
  IN  [lb EXCEPT !.has_geometry_     = lb.has_geometry_ \/ g.ok,
                 !.meta_key_cache_   = md.meta_key_cache_,
                 !.meta_value_cache_ = md.meta_value_cache_,
                 !.features = IF g.ok
                              THEN Append(@, [geometry |-> g.geometry, tags |-> md.t])
                              ELSE @]

\* layer_builder::add_feature
layer_add_feature(lb, spec, f) ==
  LET g == write_geometry(spec, f.geometry_)
      md == write_metadata(lb, f.meta_)
  IN  IF g.ok
      THEN [lb EXCEPT !.has_geometry_     = TRUE,
                      !.meta_key_cache_   = md.meta_key_cache_,
                      !.meta_value_cache_ = md.meta_value_cache_,
                      !.features = Append(@, [geometry |-> g.geometry, tags |-> md.t])]
      ELSE lb

\* layer_builder::finish: the Layer message
layer_finish(lb) ==
  [ version  |-> lb.version,
    name     |-> lb.name,
    extent   |-> lb.extent,
    features |-> lb.features,
    keys     |-> lb.meta_key_cache_,
    values   |-> lb.meta_value_cache_ ]

\* builders_ of a new tile_builder
NoBuilders == [n \in {} |-> n]

\* utl::get_or_create(builders_, name, ...)
get_or_create(builders, name) ==
  IF name \in DOMAIN builders THEN builders
  ELSE [n \in DOMAIN builders \cup {name} |->
          IF n = name THEN layer_builder(name) ELSE builders[n]]

\* mutant: a feature without a layer goes to the layer named by the empty string
impl_add_feature_unnamed(builders, spec, f) ==
  LET name == IF kLayerKey \in DOMAIN f.meta_ THEN f.meta_[kLayerKey] ELSE <<>>
      bs   == get_or_create(builders, name)
  IN  [ builders |-> [bs EXCEPT ![name] = layer_add_feature(@, spec, f)],
        skipped  |-> FALSE ]

\* tile_builder::impl::add_feature
impl_add_feature(builders, spec, f) ==
  IF kLayerKey \notin DOMAIN f.meta_
  THEN [ builders |-> builders, skipped |-> TRUE ]
  ELSE LET name == f.meta_[kLayerKey]
           bs   == get_or_create(builders, name)
       IN  [ builders |-> [bs EXCEPT ![name] = layer_add_feature(@, spec, f)],
             skipped  |-> FALSE ]

\* the loop of tile_builder::impl::finish over the builders in map order
RECURSIVE FinishLoop(_, _)
FinishLoop(builders, names) ==
  IF names = <<>> THEN <<>>
  ELSE IF ~builders[Head(names)].has_geometry_
       THEN FinishLoop(builders, Tail(names))
       ELSE <<layer_finish(builders[Head(names)])>> \o FinishLoop(builders, Tail(names))

\* tile_builder::impl::finish: the Tile message as the sequence of its layers
impl_finish(builders) == FinishLoop(builders, MapOrder(DOMAIN builders))

-----------------------------------------------------------------------------
(* tiles-server: the routes of the query_router *)

\* tiles::render_tile(db, tile): the bytes of the tile, or an exception; the
\* database is modelled by the set of tiles whose render throws
render_tile(failing, tile) ==
  IF tile \in failing THEN [ok |-> FALSE, content |-> <<>>]
  ELSE [ok |-> TRUE, content |-> <<tile>>]

\* reply::stock_reply(reply::ok) with the content and the CORS headers set
OkReply(content) == [status |-> "ok", content |-> content, cors |-> TRUE]

\* the handler of "OPTIONS .*": the replies passed to cb
options_handler(req) == << OkReply(<<>>) >>

\* the handler of "GET /z/x/y.mvt": the replies passed to cb; the catch blocks
\* write a line and call nothing
get_handler(failing, req) ==
  LET rendered == render_tile(failing, req.tile)
  IN  IF rendered.ok THEN << OkReply(rendered.content) >> ELSE <<>>

-----------------------------------------------------------------------------
(* meta["max_prepared_z"]: std::to_string on write, std::stoi on read *)

RECURSIVE to_string(_)
to_string(n) ==
  IF n < 10 THEN <<n>> ELSE Append(to_string(n \div 10), n % 10)

RECURSIVE stoi(_)
stoi(s) ==
  IF Len(s) = 0 THEN 0
  ELSE 10 * stoi(SubSeq(s, 1, Len(s) - 1)) + s[Len(s)]

NoMeta == [has |-> FALSE, val |-> <<>>, run |-> 0]

-----------------------------------------------------------------------------
(* prepare_task, prepare_stats, prepare_manager *)

NoResult == [has |-> FALSE, run |-> 0, size |-> 0]

prepare_task(t) == [tile_ |-> t, packs_ |-> {}, result_ |-> NoResult]

prepare_stats == [n_total_ |-> 0, n_finished_ |-> 0, n_empty_ |-> 0, sum_size_ |-> 0]

prepare_manager(base_range, max_zoomlevel) ==
  [max_zoomlevel_  |-> max_zoomlevel,
   curr_zoomlevel_ |-> 0,
   base_range_     |-> base_range,
   begin_          |-> 0,      \* curr_range_.begin_, as an offset into curr_range_
   stats_          |-> [z \in 0 .. max_zoomlevel |-> prepare_stats]]

IdleManager == prepare_manager(make_tile_range({}), 0)

make_prepare_manager(fdb, max_zoomlevel) ==
  prepare_manager(make_tile_range(fdb), max_zoomlevel)

curr_range_(mgr) == tile_range_on_z(mgr.base_range_, mgr.curr_zoomlevel_)

\* i += 1u << std::max(8u - curr_zoomlevel_, 0u), saturated at 256 (the loop only
\* compares i with 256).  For curr_zoomlevel_ > 8 the unsigned difference wraps to
\* 2^32 - (curr_zoomlevel_ - 8), std::max keeps it, and the shift count is >= 32:
\* undefined; a build either uses the count modulo 32 or yields 0.
BatchIncrement(zc, wraps) ==
  IF zc <= 8 THEN Pow2(8 - zc)
  ELSE IF wraps
       THEN LET e == (40 - zc) % 32 IN IF e >= 8 THEN 256 ELSE Pow2(e)
       ELSE 0

\* mutant: the cursor is advanced only when that ends the range
AdvanceCursorAtEndOnly(mgr) ==
  IF mgr.begin_ + 1 = RangeLen(tile_range_on_z(mgr.base_range_, mgr.curr_zoomlevel_))
  THEN [mgr EXCEPT !.curr_zoomlevel_ = @ + 1, !.begin_ = 0]
  ELSE mgr

\* ++curr_range_.begin_; if (begin == end) { ++curr_zoomlevel_; curr_range_ = ... }
AdvanceCursor(mgr) ==
  IF mgr.begin_ + 1 = RangeLen(curr_range_(mgr))
  THEN [mgr EXCEPT !.curr_zoomlevel_ = @ + 1, !.begin_ = 0]
  ELSE [mgr EXCEPT !.begin_ = @ + 1]

\* the for loop of get_batch, from loop counter i with the tasks in acc
RECURSIVE BatchLoop(_, _, _)
BatchLoop(mgr, i, acc) ==
  IF i >= 256 \/ mgr.curr_zoomlevel_ > mgr.max_zoomlevel_
  THEN [m |-> mgr, batch |-> acc]
  ELSE LET z    == mgr.curr_zoomlevel_
           t    == RangeAt(curr_range_(mgr), mgr.begin_)
           mgr1 == AdvanceCursor([mgr EXCEPT !.stats_[z].n_total_ = @ + 1])
       IN  BatchLoop(mgr1, i + BatchIncrement(mgr1.curr_zoomlevel_, shl_wraps),
                     Append(acc, prepare_task(t)))

get_batch(mgr) == BatchLoop(mgr, 0, <<>>)

\* prepare_manager::finish (the log line left out)
finish(mgr, tile, size) ==
  [mgr EXCEPT !.stats_[tile.z] =
     [n_total_    |-> @.n_total_,
      n_finished_ |-> @.n_finished_ + 1,
      n_empty_    |-> IF size # 0 THEN @.n_empty_ + 1 ELSE @.n_empty_,
      sum_size_   |-> @.sum_size_ + size]]

\* pack_records_foreach: the packs of the index tiles the task's tile meets
pack_records(fdb, t) == { it \in fdb : Intersects(t, it) }

\* get_tile: no result when no pack holds a feature for the tile
get_tile(task, r) ==
  IF task.packs_ = {} THEN NoResult
  ELSE [has |-> TRUE, run |-> r, size |-> Cardinality(task.packs_)]

\* txn.put(tiles_dbi, key, value)
Put(db, k, v) == { e \in db : e[1] # k } \cup { <<k, v>> }

\* the puts of a batch in task order: a later put of a key replaces an earlier
\* one (tiles of equal key are equal)
PutAll(db, tasks) ==
  LET has  == { i \in 1 .. Len(tasks) : tasks[i].result_.has }
      last == { i \in has : \A j \in has : j > i => tasks[j].tile_ # tasks[i].tile_ }
      keys == { make_tile_key(tasks[i].tile_) : i \in last }
  IN  { e \in db : e[1] \notin keys }
        \cup { <<make_tile_key(tasks[i].tile_), tasks[i].result_>> : i \in last }

BatchKeys(tasks) ==
  { make_tile_key(tasks[i].tile_) : i \in { j \in 1 .. Len(tasks) : tasks[j].result_.has } }

\* mutant: the main thread goes on after the first thread it can join
AnyJoined == \E w \in Workers : pc[w] = "done"

\* std::for_each(threads, join)
AllJoined == \A w \in Workers : pc[w] = "done"

-----------------------------------------------------------------------------
(* The state of each part while another part is being checked *)

IdlePrepare ==
  /\ features_idx = {}
  /\ shl_wraps = TRUE
  /\ tiles_db = {}
  /\ meta_db = NoMeta
  /\ m = IdleManager
  /\ mutex_ = 0
  /\ pc = [w \in Workers |-> "done"]
  /\ batch = [w \in Workers |-> <<>>]
  /\ task_i = [w \in Workers |-> 0]
  /\ phase = "idle"
  /\ run = 0
  /\ issued = <<>>
  /\ puts = EmptyBag
  /\ txn = [w \in Workers |-> "none"]
  /\ loop_i = 0

IdleBestTile ==
  /\ bt_root = Tile(0, 0, 0)
  /\ bt_geo = <<>>
  /\ bt_best = Tile(0, 0, 0)
  /\ bt_pc = "idle"
  /\ bt_path = <<>>

IdlePack ==
  /\ pk_tile = Tile(0, 0, 0)
  /\ pk_strings = <<>>
  /\ pk_pc = "idle"
  /\ pk_i = 0
  /\ pk_by_min_z = <<>>
  /\ pk_b = 0
  /\ pk_buf = <<>>
  /\ pk_quad_trees = <<>>

IdleRun ==
  /\ db_features = {}
  /\ rn_pc = "idle"
  /\ rn_resume_key = NoKey
  /\ rn_packed_features = <<>>
  /\ rn_ingested = {}
  /\ rn_failures = 0

IdleShift ==
  /\ sh_geo = NullGeometry
  /\ sh_z = 0
  /\ sh_pc = "idle"
  /\ sh_in = NullGeometry

IdleClip ==
  /\ cl_bounds = Box(0, 0, 0, 0)
  /\ cl_in = NullGeometry
  /\ cl_out = NullGeometry
  /\ cl_pc = "idle"

IdleTileBuilder ==
  /\ tb_spec = [z |-> 0, draw_bounds_ |-> Box(0, 0, 0, 0)]
  /\ tb_builders = NoBuilders
  /\ tb_calls = <<>>
  /\ tb_skipped = 0
  /\ tb_out = <<>>
  /\ tb_pc = "idle"

IdleServer ==
  /\ sv_failing = {}
  /\ sv_requests = <<>>
  /\ sv_handled = {}
  /\ sv_replies = <<>>
  /\ sv_pc = "idle"

-----------------------------------------------------------------------------
(* Actions of prepare_tiles *)

\* the populated index tiles a database may hold
IndexTileSets ==
  { {}, {<<5, 3>>}, {<<511, 0>>, <<512, 0>>}, {<<511, 511>>, <<512, 512>>} }

InitPrepare ==
  /\ IdleServer
  /\ IdleTileBuilder
  /\ IdleClip
  /\ IdleShift
  /\ IdleBestTile
  /\ IdlePack
  /\ IdleRun
  /\ features_idx \in IndexTileSets
  /\ shl_wraps \in BOOLEAN
  /\ tiles_db = {}
  /\ meta_db = NoMeta
  /\ m = IdleManager
  /\ mutex_ = 0
  /\ pc = [w \in Workers |-> "done"]
  /\ batch = [w \in Workers |-> <<>>]
  /\ task_i = [w \in Workers |-> 0]
  /\ phase = "idle"
  /\ run = 0
  /\ issued = <<>>
  /\ puts = EmptyBag
  /\ txn = [w \in Workers |-> "none"]
  /\ loop_i = 0

\* prepare_tiles is called: the manager is made and the threads are started
StartRun ==
  /\ phase = "idle"
  /\ run < MaxRuns
  /\ \E max_z \in 0 .. MaxPrepZ :
       m' = make_prepare_manager(features_idx, max_z)
  /\ phase' = "running"
  /\ run' = run + 1
  /\ pc' = [w \in Workers |-> "get_batch"]
  /\ issued' = <<>>
  /\ puts' = EmptyBag
  /\ UNCHANGED <<loop_i, txn, features_idx, tiles_db, meta_db, mutex_, batch, task_i, shl_wraps>>

\* std::lock_guard in get_batch and in finish
Lock(w) ==
  /\ phase = "running"
  /\ pc[w] \in {"get_batch", "finish"}
  /\ mutex_ = 0
  /\ mutex_' = w
  /\ pc' = [pc EXCEPT ![w] = IF pc[w] = "get_batch" THEN "in_get_batch" ELSE "in_finish"]
  /\ UNCHANGED <<loop_i, txn, features_idx, tiles_db, meta_db, m, batch, task_i, phase, run,
                 shl_wraps, issued, puts>>

\* the body of get_batch, to the release of the lock; with a batch to work
\* on, the worker then makes the transaction of the first block (line 365)
GetBatch(w) ==
  /\ pc[w] = "in_get_batch"
  /\ mutex_ = w
  /\ m.base_range_.inverted => m.begin_ < MaxOverrun
  /\ LET r == get_batch(m)
     IN  /\ m' = r.m
         /\ batch' = [batch EXCEPT ![w] = r.batch]
         /\ issued' = issued \o [i \in 1 .. Len(r.batch) |-> r.batch[i].tile_]
         /\ pc' = [pc EXCEPT ![w] = IF r.batch = <<>> THEN "done" ELSE "collect"]
         /\ txn' = [txn EXCEPT ![w] = IF r.batch = <<>> THEN "none" ELSE "read"]
  /\ mutex_' = 0
  /\ task_i' = [task_i EXCEPT ![w] = 0]
  /\ UNCHANGED <<loop_i, features_idx, tiles_db, meta_db, phase, run, shl_wraps, puts>>

\* the first transaction of the loop: collect the packs of every task; the
\* transaction ends with its block (line 374)
CollectPacks(w) ==
  /\ pc[w] = "collect"
  /\ txn[w] = "read"
  /\ batch' = [batch EXCEPT ![w] =
       [i \in 1 .. Len(batch[w]) |->
          [batch[w][i] EXCEPT !.packs_ = pack_records(features_idx, batch[w][i].tile_)]]]
  /\ task_i' = [task_i EXCEPT ![w] = 1]
  /\ txn' = [txn EXCEPT ![w] = "none"]
  /\ pc' = [pc EXCEPT ![w] = "render"]
  /\ UNCHANGED <<loop_i, features_idx, tiles_db, meta_db, m, mutex_, phase, run, shl_wraps,
                 issued, puts>>

\* task.result_ = get_tile(...)
Render(w) ==
  /\ pc[w] = "render"
  /\ batch' = [batch EXCEPT ![w][task_i[w]].result_ = get_tile(batch[w][task_i[w]], run)]
  /\ pc' = [pc EXCEPT ![w] = "finish"]
  /\ UNCHANGED <<loop_i, txn, features_idx, tiles_db, meta_db, m, mutex_, task_i, phase, run,
                 shl_wraps, issued, puts>>

\* mutant: the render loop is left after its first task
AfterFinishFirst(i, n) == "write"

\* the for loop over the tasks of the batch (line 376): the next task, or
\* the write block after the last
AfterFinish(i, n) == IF i = n THEN "write" ELSE "render"

\* the body of m.finish(task.tile_, size, dur), to the release of the lock;
\* after the last task the worker then makes the transaction of the last
\* block (line 395)
Finish(w) ==
  /\ pc[w] = "in_finish"
  /\ mutex_ = w
  /\ LET task == batch[w][task_i[w]]
     IN  m' = finish(m, task.tile_, IF task.result_.has THEN task.result_.size ELSE 0)
  /\ mutex_' = 0
  /\ task_i' = [task_i EXCEPT ![w] = @ + 1]
  /\ pc' = [pc EXCEPT ![w] = AfterFinish(task_i[w], Len(batch[w]))]
  /\ txn' = [txn EXCEPT ![w] =
       IF AfterFinish(task_i[w], Len(batch[w])) = "write" THEN "write" ELSE "none"]
  /\ UNCHANGED <<loop_i, features_idx, tiles_db, meta_db, batch, phase, run, shl_wraps,
                 issued, puts>>

\* the puts of the write transaction of the batch and its commit
WriteBatch(w) ==
  /\ pc[w] = "write"
  /\ txn[w] = "write"
  /\ tiles_db' = PutAll(tiles_db, batch[w])
  /\ puts' = puts (+) SetToBag(BatchKeys(batch[w]))
  /\ batch' = [batch EXCEPT ![w] = <<>>]
  /\ task_i' = [task_i EXCEPT ![w] = 0]
  /\ txn' = [txn EXCEPT ![w] = "none"]
  /\ pc' = [pc EXCEPT ![w] = "get_batch"]
  /\ UNCHANGED <<loop_i, features_idx, meta_db, m, mutex_, phase, run, shl_wraps, issued>>

\* after the joins: meta["max_prepared_z"] = std::to_string(max_zoomlevel)
Finalize ==
  /\ phase = "running"
  /\ AllJoined
  /\ meta_db' = [has |-> TRUE, val |-> to_string(m.max_zoomlevel_), run |-> run]
  /\ phase' = "idle"
  /\ UNCHANGED <<loop_i, txn, features_idx, tiles_db, m, mutex_, pc, batch, task_i, run, shl_wraps,
                 issued, puts>>

NextPrepare ==
  \/ StartRun /\ UNCHANGED other_than_prep
  \/ \E w \in Workers : Lock(w) /\ UNCHANGED other_than_prep
  \/ \E w \in Workers : GetBatch(w) /\ UNCHANGED other_than_prep
  \/ \E w \in Workers : CollectPacks(w) /\ UNCHANGED other_than_prep
  \/ \E w \in Workers : Render(w) /\ UNCHANGED other_than_prep
  \/ \E w \in Workers : Finish(w) /\ UNCHANGED other_than_prep
  \/ \E w \in Workers : WriteBatch(w) /\ UNCHANGED other_than_prep
  \/ Finalize /\ UNCHANGED other_than_prep

SpecPrepare == InitPrepare /\ [][NextPrepare]_vars

-----------------------------------------------------------------------------
(* prepare_tiles called again after the features table was replaced *)

\* prepare_tiles is called on a database whose tiles table was written by an
\* earlier run and whose features table has been replaced since
StartRerun ==
  /\ phase = "idle"
  /\ run >= 1
  /\ run < MaxRuns
  /\ \E idx \in IndexTileSets \ {features_idx} : \E max_z \in 0 .. MaxPrepZ :
       /\ features_idx' = idx
       /\ m' = make_prepare_manager(idx, max_z)
  /\ phase' = "running"
  /\ run' = run + 1
  /\ pc' = [w \in Workers |-> "get_batch"]
  /\ issued' = <<>>
  /\ puts' = EmptyBag
  /\ UNCHANGED <<loop_i, txn, tiles_db, meta_db, mutex_, batch, task_i, shl_wraps>>

NextReprepare ==
  \/ NextPrepare
  \/ StartRerun /\ UNCHANGED other_than_prep

SpecReprepare == InitPrepare /\ [][NextReprepare]_vars

-----------------------------------------------------------------------------
(* prepare_tiles with one worker thread and zoom levels beyond 8, the loop of
   get_batch one pass at a time *)

\* the max_zoomlevel arguments tried: below, at and above the zoom level 8 of
\* the batch increment
DeepZooms == { 0, 2, 9, 13 }

\* prepare_tiles is called; one thread is started
StartDeepRun ==
  /\ phase = "idle"
  /\ run = 0
  /\ \E max_z \in DeepZooms :
       m' = make_prepare_manager(features_idx, max_z)
  /\ phase' = "running"
  /\ run' = run + 1
  /\ pc' = [pc EXCEPT ![1] = "get_batch"]
  /\ issued' = <<>>
  /\ puts' = EmptyBag
  /\ UNCHANGED <<loop_i, txn, features_idx, tiles_db, meta_db, mutex_, batch, task_i,
                 shl_wraps>>

\* the for loop of get_batch is entered or continued (lines 275-277)
InBatchLoop == loop_i < 256 /\ ~ (m.curr_zoomlevel_ > m.max_zoomlevel_)

\* one pass of the body of the for loop of get_batch and its increment
\* (lines 275-289)
GetBatchPass(w) ==
  /\ pc[w] = "in_get_batch"
  /\ mutex_ = w
  /\ InBatchLoop
  /\ m.base_range_.inverted => m.begin_ < MaxOverrun
  /\ LET z    == m.curr_zoomlevel_
         t    == RangeAt(curr_range_(m), m.begin_)
         mgr1 == AdvanceCursor([m EXCEPT !.stats_[z].n_total_ = @ + 1])
     IN  /\ m' = mgr1
         /\ batch' = [batch EXCEPT ![w] = Append(@, prepare_task(t))]
         /\ issued' = Append(issued, t)
         /\ loop_i' = MinOf({256, loop_i + BatchIncrement(mgr1.curr_zoomlevel_, shl_wraps)})
  /\ UNCHANGED <<txn, features_idx, tiles_db, meta_db, mutex_, pc, task_i, phase, run,
                 shl_wraps, puts>>

\* get_batch returns the batch and releases the lock (line 290); with a
\* batch to work on, the worker then makes the transaction of line 365
GetBatchReturn(w) ==
  /\ pc[w] = "in_get_batch"
  /\ mutex_ = w
  /\ ~ InBatchLoop
  /\ pc' = [pc EXCEPT ![w] = IF batch[w] = <<>> THEN "done" ELSE "collect"]
  /\ txn' = [txn EXCEPT ![w] = IF batch[w] = <<>> THEN "none" ELSE "read"]
  /\ mutex_' = 0
  /\ loop_i' = 0
  /\ task_i' = [task_i EXCEPT ![w] = 0]
  /\ UNCHANGED <<features_idx, tiles_db, meta_db, m, batch, phase, run, shl_wraps,
                 issued, puts>>

NextDeepRun ==
  \/ StartDeepRun /\ UNCHANGED other_than_prep
  \/ Lock(1) /\ UNCHANGED other_than_prep
  \/ GetBatchPass(1) /\ UNCHANGED other_than_prep
  \/ GetBatchReturn(1) /\ UNCHANGED other_than_prep
  \/ CollectPacks(1) /\ UNCHANGED other_than_prep
  \/ Render(1) /\ UNCHANGED other_than_prep
  \/ Finish(1) /\ UNCHANGED other_than_prep
  \/ WriteBatch(1) /\ UNCHANGED other_than_prep
  \/ Finalize /\ UNCHANGED other_than_prep

SpecDeepRun == InitPrepare /\ [][NextDeepRun]_vars

\* the same with a thread that keeps running, renders and transactions that
\* end, and a main thread that goes on after the join
SpecDeepRunFair == SpecDeepRun /\ WF_vars(NextDeepRun)

-----------------------------------------------------------------------------
(* find_best_tile, one pass of its loop at a time *)

\* the index tiles tried: a zoom-10 tile, and tiles one level and no level above
\* kMaxZoomLevel, all with their corner at (2^22, 2^22)
BestTileRoots == { Tile(10, 1, 1), Tile(19, 512, 512), Tile(20, 1024, 1024) }

RootOrigin == kTileSize * Pow2(10)

XOffsets == { -5, 0, 10, 4096, 4100, 8192, 2097152, 4194304, 4194311 }
YOffsets == { 0, 10, 4096, 2097152 }

GeoPoints == { <<RootOrigin + dx, RootOrigin + dy>> : dx \in XOffsets, dy \in YOffsets }

InitBestTile ==
  /\ IdleServer
  /\ IdleTileBuilder
  /\ IdleClip
  /\ IdleShift
  /\ IdlePrepare
  /\ IdlePack
  /\ IdleRun
  /\ bt_root \in BestTileRoots
  /\ \E p1, p2 \in GeoPoints : bt_geo = <<p1, p2>>
  /\ bt_best = bt_root
  /\ bt_pc = "loop"
  /\ bt_path = <<bt_root>>

\* the while test fails: return best (line 89)
BestTileReturn ==
  /\ bt_pc = "loop"
  /\ ~ (bt_best.z < kMaxZoomLevel)
  /\ bt_pc' = "done"
  /\ UNCHANGED <<bt_root, bt_geo, bt_best, bt_path>>

\* one pass of the while body
BestTileLoop ==
  /\ bt_pc = "loop"
  /\ bt_best.z < kMaxZoomLevel
  /\ LET r == WhileBody(bt_best, bounding_box(bt_geo))
     IN  /\ bt_pc' = IF r.k = "return" THEN "done" ELSE IF r.k = "fail" THEN "fail" ELSE "loop"
         /\ bt_best' = r.tile
         /\ bt_path' = IF r.k = "next" THEN Append(bt_path, r.tile) ELSE bt_path
  /\ UNCHANGED <<bt_root, bt_geo>>

NextBestTile ==
  \/ BestTileReturn /\ UNCHANGED other_than_bt
  \/ BestTileLoop /\ UNCHANGED other_than_bt

SpecBestTile == InitBestTile /\ [][NextBestTile]_vars

-----------------------------------------------------------------------------
(* pack_features(tile, ...), one loop pass at a time *)

MaxFeatures == 2     \* raw features handed to one call

\* index tiles: at the index zoom, and one level and no level above kMaxZoomLevel
PackTiles == BestTileRoots

\* the raw features of a tile with origin o: three in the same deepest tile
\* (two of them from the first bucket on), one across two zoom-20 tiles, one
\* of 31 bytes, one that does not decode, one with min_z above kMaxZoomLevel,
\* one left of the tile
RawFeatures(o) ==
  { RawFeature(1, 0,  << <<o + 10, o + 10>>, <<o + 10, o + 10>> >>, 32, TRUE),
    RawFeature(2, 20, << <<o + 10, o + 10>>, <<o + 10, o + 10>> >>, 130, TRUE),
    RawFeature(3, 0,  << <<o + 10, o + 10>>, <<o + 10, o + 10>> >>, 40, TRUE),
    RawFeature(4, 19, << <<o + 10, o + 10>>, <<o + 4100, o + 10>> >>, 64, TRUE),
    RawFeature(5, 0,  << <<o + 10, o + 10>>, <<o + 10, o + 10>> >>, 31, TRUE),
    RawFeature(6, 0,  << <<o + 10, o + 10>>, <<o + 10, o + 10>> >>, 32, FALSE),
    RawFeature(7, 21, << <<o + 10, o + 10>>, <<o + 10, o + 10>> >>, 32, TRUE),
    RawFeature(8, 0,  << <<o - 5, o + 10>>, <<o - 5, o + 10>> >>, 32, TRUE) }

SeqsUpTo(S, n) == UNION { [1 .. k -> S] : k \in 0 .. n }

InitPackTile ==
  /\ IdleServer
  /\ IdleTileBuilder
  /\ IdleClip
  /\ IdleShift
  /\ IdlePrepare
  /\ IdleBestTile
  /\ IdleRun
  /\ pk_tile \in PackTiles
  /\ pk_strings \in SeqsUpTo(RawFeatures(RootOrigin), MaxFeatures)
  /\ pk_pc = "bucket"
  /\ pk_i = 0
  /\ pk_by_min_z = [z \in 1 .. kMaxZoomLevel + 1 - pk_tile.z |-> <<>>]
  /\ pk_b = 0
  /\ pk_buf = <<>>
  /\ pk_quad_trees = <<>>

\* one pass of the loop of lines 137-147
PackBucketFeature ==
  /\ pk_pc = "bucket"
  /\ pk_i < Len(pk_strings)
  /\ LET r == BucketFeature(pk_tile, pk_by_min_z, pk_strings[pk_i + 1])
     IN  /\ pk_pc' = IF r.ok THEN "bucket" ELSE "fail"
         /\ pk_by_min_z' = r.by_min_z
  /\ pk_i' = pk_i + 1
  /\ UNCHANGED <<pk_tile, pk_strings, pk_b, pk_buf, pk_quad_trees>>

\* line 149: packer p{strings.size()}
PackConstruct ==
  /\ pk_pc = "bucket"
  /\ pk_i = Len(pk_strings)
  /\ pk_buf' = packer(Len(pk_strings))
  /\ pk_pc' = "spans"
  /\ UNCHANGED <<pk_tile, pk_strings, pk_i, pk_by_min_z, pk_b, pk_quad_trees>>

\* one pass of the loop of lines 152-168
PackBucketSpans ==
  /\ pk_pc = "spans"
  /\ pk_b < Len(pk_by_min_z)
  /\ \E sorted \in SortedOrders(pk_by_min_z[pk_b + 1]) :
       LET r == PackBucket(pk_tile, pk_buf, pk_quad_trees, sorted)
       IN  /\ pk_pc' = IF r.ok THEN "spans" ELSE "fail"
           /\ pk_buf' = r.buf
           /\ pk_quad_trees' = r.quad_trees
  /\ pk_b' = pk_b + 1
  /\ UNCHANGED <<pk_tile, pk_strings, pk_i, pk_by_min_z>>

\* lines 169-173: return p.buf_
PackReturn ==
  /\ pk_pc = "spans"
  /\ pk_b = Len(pk_by_min_z)
  /\ pk_buf' = PackIndex(pk_buf, pk_quad_trees)
  /\ pk_pc' = "done"
  /\ UNCHANGED <<pk_tile, pk_strings, pk_i, pk_by_min_z, pk_b, pk_quad_trees>>

NextPackTile ==
  \/ PackBucketFeature /\ UNCHANGED other_than_pk
  \/ PackConstruct /\ UNCHANGED other_than_pk
  \/ PackBucketSpans /\ UNCHANGED other_than_pk
  \/ PackReturn /\ UNCHANGED other_than_pk

SpecPackTile == InitPackTile /\ [][NextPackTile]_vars

-----------------------------------------------------------------------------
(* pack_features(handle), one transaction at a time *)

MaxEntries == 2      \* raw entries of one index tile

\* the index tiles of the table, in key order
RunTiles == << Tile(10, 1, 1), Tile(10, 2, 1), Tile(10, 1, 2) >>

\* the sizes of raw features: the smallest a pack takes, and one of which two
\* are above kPackBatchThreshold
RawSizes == { 32, 40 * 1024 * 1024 }

\* the feature inserted as entry idx of tile number t, at the corner of the tile
IngestedFeature(t, idx, n) ==
  LET o == << RunTiles[t].x * RootOrigin + 10, RunTiles[t].y * RootOrigin + 10 >>
  IN  RawFeature(10 * t + idx, 0, <<o, o>>, n, TRUE)

\* the tables ingestion may leave: up to MaxEntries entries of one feature
\* for each tile
IngestedTables ==
  { UNION { { RawEntry(FeatureKey(RunTiles[t], idx), << IngestedFeature(t, idx, sz[t][idx + 1]) >>)
              : idx \in 0 .. Len(sz[t]) - 1 } : t \in 1 .. Len(RunTiles) }
    : sz \in [1 .. Len(RunTiles) -> SeqsUpTo(RawSizes, MaxEntries)] }

InitPackRun ==
  /\ IdleServer
  /\ IdleTileBuilder
  /\ IdleClip
  /\ IdleShift
  /\ IdlePrepare
  /\ IdleBestTile
  /\ IdlePack
  /\ db_features \in IngestedTables
  /\ rn_ingested = UNION { SeqToSet(e.val.strings) : e \in db_features }
  /\ rn_pc = "collect"
  /\ rn_resume_key = NoKey
  /\ rn_packed_features = <<>>
  /\ rn_failures = 0

\* the collect transaction and its commit (lines 187-242)
RunCollect ==
  /\ rn_pc = "collect"
  /\ LET r == collect_features(db_features, rn_resume_key)
     IN  IF r.ok
         THEN /\ db_features' = { e \in db_features : e.key \notin r.deleted }
              /\ rn_packed_features' = r.packed_features
              /\ rn_resume_key' = r.resume_key
              /\ rn_pc' = "sync"
         ELSE /\ rn_pc' = "fail"
              /\ UNCHANGED <<db_features, rn_packed_features, rn_resume_key>>
  /\ UNCHANGED <<rn_ingested, rn_failures>>

\* handle.env_.sync() (line 244)
RunSync ==
  /\ rn_pc = "sync"
  /\ rn_pc' = "writeback"
  /\ UNCHANGED <<db_features, rn_packed_features, rn_resume_key, rn_ingested, rn_failures>>

\* the writeback transaction and its commit (lines 246-253), and the loop
\* test of line 255
RunWriteback ==
  /\ rn_pc = "writeback"
  /\ db_features' = WritebackAll(db_features, rn_packed_features)
  /\ rn_packed_features' = <<>>
  /\ rn_pc' = IF rn_resume_key # NoKey THEN "collect" ELSE "done"
  /\ UNCHANGED <<rn_resume_key, rn_ingested, rn_failures>>

\* the process is interrupted between two transactions: the committed table
\* stays, packed_features is gone
RunInterrupt ==
  /\ rn_pc \in {"collect", "sync", "writeback"}
  /\ rn_pc' = "interrupted"
  /\ rn_packed_features' = <<>>
  /\ UNCHANGED <<db_features, rn_resume_key, rn_ingested, rn_failures>>

\* a transaction of the batch (lmdb::txn, put, del or commit, lines 187-253)
\* raises an error: nothing of it is committed, and no handler is between the
\* throw and the caller of pack_features
RunTxnError ==
  /\ rn_pc \in {"collect", "writeback"}
  /\ rn_failures' = rn_failures + 1
  /\ rn_pc' = "fatal"
  /\ rn_packed_features' = <<>>
  /\ UNCHANGED <<db_features, rn_resume_key, rn_ingested>>

NextPackRun ==
  \/ RunCollect /\ UNCHANGED other_than_rn
  \/ RunSync /\ UNCHANGED other_than_rn
  \/ RunWriteback /\ UNCHANGED other_than_rn
  \/ RunInterrupt /\ UNCHANGED other_than_rn
  \/ RunTxnError /\ UNCHANGED other_than_rn

SpecPackRun == InitPackRun /\ [][NextPackRun]_vars

-----------------------------------------------------------------------------
(* shift, one call *)

\* points with negative, zero and positive coordinates, on and off multiples
\* of the tile size
ShiftPoints == { <<-4097, -1>>, <<0, 5>>, <<4096, 8191>>, <<-1, 4096>>, <<8192, 20000>> }

\* zoom levels of the rendered tile
ShiftZooms == { 0, 18, 19, 20 }

ShiftGeometries ==
  {NullGeometry}
    \cup { PointGeometry(p) : p \in ShiftPoints }
    \cup { Polyline(<< <<p, q>> >>) : p, q \in ShiftPoints }
    \cup { Polyline(<< <<p, q>>, <<q, p>> >>) : p, q \in ShiftPoints }
    \cup { Polygon(<< <<p, q, r, p>> >>) : p, q, r \in ShiftPoints }

InitShift ==
  /\ IdleServer
  /\ IdleTileBuilder
  /\ IdleClip
  /\ IdlePrepare
  /\ IdleBestTile
  /\ IdlePack
  /\ IdleRun
  /\ sh_in \in ShiftGeometries
  /\ sh_geo = sh_in
  /\ sh_z \in ShiftZooms
  /\ sh_pc = "call"

\* shift(geometry, spec_.tile_.z_) (tile_builder.cc line 245)
Shift ==
  /\ sh_pc = "call"
  /\ sh_geo' = shift(sh_geo, sh_z)
  /\ sh_pc' = "done"
  /\ UNCHANGED <<sh_in, sh_z>>

NextShift ==
  \/ Shift /\ UNCHANGED other_than_sh

SpecShift == InitShift /\ [][NextShift]_vars

-----------------------------------------------------------------------------
(* clip, one call *)

\* the bounds of the tests and a second box
ClipBounds == { Box(10, 10, 20, 20), Box(8, 0, 12, 18) }

ClipCoords == { 0, 8, 10, 12, 18, 20, 30 }

\* the points of the tests and the points of a grid around the boxes
ClipPoints ==
  { <<42, 23>>, <<15, 15>> } \cup { <<x, y>> : x, y \in ClipCoords }

\* segments parallel to an axis or diagonal: their crossings with the edges
\* of a box are points with integer coordinates
OnGrid(a, c) ==
  \/ a[1] = c[1]
  \/ a[2] = c[2]
  \/ a[1] - c[1] = a[2] - c[2]
  \/ a[1] - c[1] = c[2] - a[2]

BendPoints == { <<0, 12>>, <<12, 12>>, <<12, 30>>, <<30, 30>>, <<18, 18>> }

ClipGeometries ==
  {NullGeometry}
    \cup { PointGeometry(p) : p \in ClipPoints }
    \cup { Polyline(<< <<s[1], s[2]>> >>) :
             s \in { s \in ClipPoints \X ClipPoints : OnGrid(s[1], s[2]) } }
    \cup { Polyline(<< <<s[1], s[2], s[3]>> >>) :
             s \in { s \in BendPoints \X BendPoints \X BendPoints :
                       OnGrid(s[1], s[2]) /\ OnGrid(s[2], s[3]) } }

InitClip ==
  /\ IdleServer
  /\ IdleTileBuilder
  /\ IdlePrepare
  /\ IdleBestTile
  /\ IdlePack
  /\ IdleRun
  /\ IdleShift
  /\ cl_bounds \in ClipBounds
  /\ cl_in \in ClipGeometries
  /\ cl_out = NullGeometry
  /\ cl_pc = "call"

\* auto result = clip(input, spec)
Clip ==
  /\ cl_pc = "call"
  /\ cl_out' = clip(cl_in, cl_bounds)
  /\ cl_pc' = "done"
  /\ UNCHANGED <<cl_bounds, cl_in>>

NextClip ==
  \/ Clip /\ UNCHANGED other_than_cl

SpecClip == InitClip /\ [][NextClip]_vars

-----------------------------------------------------------------------------
(* tile_builder: add_feature calls followed by finish *)

MaxCalls == 2        \* add_feature calls per tile_builder

\* layer names and meta values: "b", "r" and "a", "b"
LayerNames == { <<98>>, <<114>> }
MetaValues == { <<97>>, <<98>> }

\* meta keys besides "layer": "__z", "_a", "k"
kKeyInternal   == <<95, 95, 122>>
kKeyUnderscore == <<95, 97>>
kKeyPlain      == <<107>>

\* a partial map given as a set of <<key, value>> pairs with distinct keys
MapOf(pairs) ==
  [k \in { p[1] : p \in pairs } |-> (CHOOSE p \in pairs : p[1] = k)[2]]

Metas ==
  { MapOf(l \cup i \cup u \cup p) :
      l \in { {} } \cup { { <<kLayerKey, n>> } : n \in LayerNames },
      i \in { {}, { <<kKeyInternal, <<97>> >> } },
      u \in { {}, { <<kKeyUnderscore, <<97>> >> } },
      p \in { {} } \cup { { <<kKeyPlain, v>> } : v \in MetaValues } }

TileBuilderPoints == { <<15, 15>>, <<42, 23>> }

TileBuilderFeatures ==
  { Feature(meta, PointGeometry(p)) : meta \in Metas, p \in TileBuilderPoints }

TileBuilderSpecs == { [z |-> 19, draw_bounds_ |-> b] : b \in ClipBounds }

InitTileBuilder ==
  /\ IdleServer
  /\ IdlePrepare
  /\ IdleBestTile
  /\ IdlePack
  /\ IdleRun
  /\ IdleShift
  /\ IdleClip
  /\ tb_spec \in TileBuilderSpecs
  /\ tb_builders = NoBuilders
  /\ tb_calls = <<>>
  /\ tb_skipped = 0
  /\ tb_out = <<>>
  /\ tb_pc = "open"

\* tile_builder::add_feature(f)
AddFeature ==
  /\ tb_pc = "open"
  /\ Len(tb_calls) < MaxCalls
  /\ \E f \in TileBuilderFeatures :
       /\ tb_calls' = Append(tb_calls, f)
       /\ tb_builders' = impl_add_feature(tb_builders, tb_spec, f).builders
       /\ tb_skipped' = IF impl_add_feature(tb_builders, tb_spec, f).skipped
                        THEN tb_skipped + 1 ELSE tb_skipped
  /\ UNCHANGED <<tb_spec, tb_out, tb_pc>>
  /\ UNCHANGED other_than_tb

\* tile_builder::finish()
TileBuilderFinish ==
  /\ tb_pc = "open"
  /\ tb_out' = impl_finish(tb_builders)
  /\ tb_pc' = "finished"
  /\ UNCHANGED <<tb_spec, tb_builders, tb_calls, tb_skipped>>
  /\ UNCHANGED other_than_tb

NextTileBuilder ==
  \/ AddFeature
  \/ TileBuilderFinish

SpecTileBuilder == InitTileBuilder /\ [][NextTileBuilder]_vars

-----------------------------------------------------------------------------
(* tiles-server: requests received and handled *)

MaxRequests == 3     \* requests received per behaviour

ServerTiles == { Tile(1, 0, 0), Tile(1, 1, 0) }

Requests == { [method |-> mt, tile |-> t] : mt \in {"GET", "OPTIONS"}, t \in ServerTiles }

InitServer ==
  /\ IdlePrepare
  /\ IdleBestTile
  /\ IdlePack
  /\ IdleRun
  /\ IdleShift
  /\ IdleClip
  /\ IdleTileBuilder
  /\ sv_failing \in SUBSET ServerTiles
  /\ sv_requests = <<>>
  /\ sv_handled = {}
  /\ sv_replies = <<>>
  /\ sv_pc = "listening"

\* a request arrives and is routed
Receive ==
  /\ sv_pc = "listening"
  /\ Len(sv_requests) < MaxRequests
  /\ \E req \in Requests :
       /\ sv_requests' = Append(sv_requests, req)
       /\ sv_replies' = Append(sv_replies, <<>>)
  /\ UNCHANGED <<sv_failing, sv_handled, sv_pc>>
  /\ UNCHANGED other_than_sv

\* the handler of the OPTIONS route runs to its end
HandleOptions ==
  /\ sv_pc = "listening"
  /\ \E i \in (1 .. Len(sv_requests)) \ sv_handled :
       /\ sv_requests[i].method = "OPTIONS"
       /\ sv_replies' = [sv_replies EXCEPT ![i] = @ \o options_handler(sv_requests[i])]
       /\ sv_handled' = sv_handled \cup {i}
  /\ UNCHANGED <<sv_failing, sv_requests, sv_pc>>
  /\ UNCHANGED other_than_sv

\* the handler of the GET route runs to its end ("done:" is written)
HandleGet ==
  /\ sv_pc = "listening"
  /\ \E i \in (1 .. Len(sv_requests)) \ sv_handled :
       /\ sv_requests[i].method = "GET"
       /\ sv_replies' = [sv_replies EXCEPT ![i] = @ \o get_handler(sv_failing, sv_requests[i])]
       /\ sv_handled' = sv_handled \cup {i}
  /\ UNCHANGED <<sv_failing, sv_requests, sv_pc>>
  /\ UNCHANGED other_than_sv

NextServer ==
  \/ Receive
  \/ HandleOptions
  \/ HandleGet

SpecServer == InitServer /\ [][NextServer]_vars

-----------------------------------------------------------------------------
(* Claims about prepare_tiles, checked under SpecPrepare *)

BatchTiles(w) == { batch[w][i].tile_ : i \in 1 .. Len(batch[w]) }

\* C1: under every interleaving of the workers, get_batch places no tile in two
\* batches nor twice in one batch, the batches held by different workers are
\* disjoint, and no tile key is put by two write transactions of a run.
C1_NoTileIssuedTwice ==
  /\ NoDup(issued)
  /\ \A w \in Workers :
       \A i, j \in 1 .. Len(batch[w]) : i # j => batch[w][i].tile_ # batch[w][j].tile_
  /\ \A w1, w2 \in Workers : w1 # w2 => BatchTiles(w1) \cap BatchTiles(w2) = {}
  /\ \A k \in BagToSet(puts) : CopiesIn(k, puts) = 1

\* two workers hold a batch at once while a third batch is already written
C1_Witness ==
  /\ \A w \in Workers : Len(batch[w]) >= 1
  /\ puts # EmptyBag

\* the tiles (z, x, y), z <= max_z, in the bounding range of the populated index
\* tiles projected to zoom z (none when no index tile is populated)
Coverage(fdb, max_z) ==
  IF fdb = {} THEN {}
  ELSE UNION { RangeTiles(tile_range_on_z(make_tile_range(fdb), z)) : z \in 0 .. max_z }

RunReturned == phase = "idle" /\ run > 0

\* C2: no tile outside the coverage is ever issued (none at all when no index
\* tile is populated), and when prepare_tiles returns every tile of the
\* coverage has been issued.
C2_IssuedIsCoverage ==
  /\ phase = "running" => SeqToSet(issued) \subseteq Coverage(features_idx, m.max_zoomlevel_)
  /\ RunReturned => SeqToSet(issued) = Coverage(features_idx, m.max_zoomlevel_)

\* what this run's render of tile t yields
RunResult(t) ==
  get_tile([prepare_task(t) EXCEPT !.packs_ = pack_records(features_idx, t)], run)

\* C3: whenever this run's max_prepared_z is visible, every worker has ended,
\* the value is max_z, and the tiles table holds this run's result of every
\* issued tile that rendered non-empty.
C3_MetaAfterAllWrites ==
  (meta_db.has /\ meta_db.run = run) =>
     /\ \A w \in Workers : pc[w] = "done" /\ batch[w] = <<>>
     /\ stoi(meta_db.val) = m.max_zoomlevel_
     /\ \A i \in 1 .. Len(issued) :
          RunResult(issued[i]).has =>
             <<make_tile_key(issued[i]), RunResult(issued[i])>> \in tiles_db

\* the second run has written its max_prepared_z over tiles it rendered itself
C3_Witness ==
  /\ meta_db.has /\ meta_db.run = run /\ run = 2
  /\ \E e \in tiles_db : e[2].run = run /\ e[1][1] = 2

\* database_stats: verify(tile.z_ <= max_prep, "tile outside prepared range found!")
database_stats_verify ==
  meta_db.has =>
    \A e \in tiles_db : tile_key_to_tile(e[1]).z <= stoi(meta_db.val)

\* C4: after any sequence of completed prepare_tiles runs every entry of the
\* tiles table has a zoom <= the stored max_prepared_z (the check of
\* database_stats does not fail).
C4_TilesWithinPreparedRange == phase = "idle" => database_stats_verify

-----------------------------------------------------------------------------
(* Claims about find_best_tile, checked under SpecBestTile *)

\* two closed boxes have a point in common
BoxesMeet(a, b) ==
  a.minx <= b.maxx /\ b.minx <= a.maxx /\ a.miny <= b.maxy /\ b.miny <= a.maxy

\* box a lies within box b
BoxWithin(a, b) ==
  b.minx <= a.minx /\ a.maxx <= b.maxx /\ b.miny <= a.miny /\ a.maxy <= b.maxy

\* the part of box a within box b lies within box c
PartWithin(a, b, c) ==
  BoxesMeet(a, b) =>
    BoxWithin(Box(IF a.minx > b.minx THEN a.minx ELSE b.minx,
                  IF a.miny > b.miny THEN a.miny ELSE b.miny,
                  IF a.maxx < b.maxx THEN a.maxx ELSE b.maxx,
                  IF a.maxy < b.maxy THEN a.maxy ELSE b.maxy), c)

\* the direct children of t whose insert bounds the box overlaps
Meeting(t, fb) ==
  { i \in 1 .. 4 : BoxesMeet(fb, insert_bounds(direct_children(t)[i])) }

\* b is t or a descendant of t
InSubtree(b, t) ==
  /\ b.z >= t.z
  /\ b.x \div Pow2(b.z - t.z) = t.x
  /\ b.y \div Pow2(b.z - t.z) = t.y

\* C8: the descent passes only tiles with exactly one matching child, and it
\* returns the first tile at which two children match (the root itself when
\* two children of the root match), never one of the matching children.
C8_TwoMatchesKeepParent ==
  LET fb == bounding_box(bt_geo)
  IN  /\ \A i \in 1 .. Len(bt_path) - 1 : Cardinality(Meeting(bt_path[i], fb)) = 1
      /\ bt_pc = "done" =>
           /\ bt_best = bt_path[Len(bt_path)]
           /\ bt_root.z = kMaxZoomLevel => bt_best = bt_root
           /\ (bt_root.z < kMaxZoomLevel /\ Cardinality(Meeting(bt_root, fb)) >= 2)
                => bt_best = bt_root
           /\ bt_best.z < kMaxZoomLevel => Cardinality(Meeting(bt_best, fb)) >= 2

\* a descent that went below the root and halted at a tile with two matching children
C8_Witness ==
  /\ bt_pc = "done"
  /\ Len(bt_path) >= 3
  /\ bt_best.z < kMaxZoomLevel
  /\ Cardinality(Meeting(bt_best, bounding_box(bt_geo))) >= 2

\* C9 (as claimed): the returned tile B is T or a descendant of T with
\* T.z <= B.z <= MAX_Z, its insert bounds wholly contain bbox(f), and no
\* deeper tile's insert bounds do.
C9_BestTileContainsBox ==
  bt_pc = "done" =>
    LET fb == bounding_box(bt_geo)
    IN  /\ InSubtree(bt_best, bt_root) /\ bt_best.z <= kMaxZoomLevel
        /\ BoxWithin(fb, insert_bounds(bt_best))
        /\ bt_best.z < kMaxZoomLevel =>
             \A i \in 1 .. 4 : ~ BoxWithin(fb, insert_bounds(direct_children(bt_best)[i]))

\* C9 (amended): the returned tile B is T or a descendant of T with
\* T.z <= B.z <= MAX_Z; the insert bounds of B contain the part of bbox(f)
\* that lies within T's insert bounds (all of bbox(f) when it lies within
\* them); and B.z = MAX_Z or bbox(f) overlaps at least two children of B.
C9_BestTileContainsBoxInsideRoot ==
  bt_pc = "done" =>
    LET fb == bounding_box(bt_geo)
    IN  /\ InSubtree(bt_best, bt_root) /\ bt_best.z <= kMaxZoomLevel
        /\ PartWithin(fb, insert_bounds(bt_root), insert_bounds(bt_best))
        /\ BoxWithin(fb, insert_bounds(bt_root)) => BoxWithin(fb, insert_bounds(bt_best))
        /\ bt_best.z < kMaxZoomLevel => Cardinality(Meeting(bt_best, fb)) >= 2

\* a feature that extends beyond the index tile was pushed below it
C9_Witness ==
  /\ bt_pc = "done"
  /\ ~ BoxWithin(bounding_box(bt_geo), insert_bounds(bt_root))
  /\ bt_best.z > bt_root.z

-----------------------------------------------------------------------------
(* Claims about pack_features(tile, ...), checked under SpecPackTile: the
   buffer is read back the way a reader of the pack reads it *)

\* the item of buf that starts at byte offset off; 0 when none does
ItemAt(buf, off) ==
  IF \E i \in 1 .. Len(buf) : BufSize(SubSeq(buf, 1, i - 1)) = off
  THEN CHOOSE i \in 1 .. Len(buf) : BufSize(SubSeq(buf, 1, i - 1)) = off
  ELSE 0

\* read the span whose first item is item i: length-prefixed payloads up to
\* the 0 varint; ok is FALSE when the bytes are no such list
RECURSIVE ReadItems(_, _)
ReadItems(buf, i) ==
  IF i < 1 \/ i > Len(buf) \/ buf[i].k # "varint" THEN [ok |-> FALSE, payloads |-> <<>>]
  ELSE IF buf[i].v = 0 THEN [ok |-> TRUE, payloads |-> <<>>]
  ELSE IF i + 1 > Len(buf) \/ buf[i + 1].k # "bytes" \/ buf[i + 1].n # buf[i].v
       THEN [ok |-> FALSE, payloads |-> <<>>]
  ELSE LET r == ReadItems(buf, i + 2)
       IN  [ok |-> r.ok, payloads |-> <<buf[i + 1].v>> \o r.payloads]

ReadSpan(buf, off) == ReadItems(buf, ItemAt(buf, off))

\* the index array: the items from index_offset to the end of the buffer
IndexStart(buf) == ItemAt(buf, buf[2].v)

IndexEntries(buf) == [b \in 1 .. Len(buf) + 1 - IndexStart(buf) |-> buf[IndexStart(buf) + b - 1]]

IsQuadTree(item) == item.k = "bytes" /\ "k" \in DOMAIN item.v

\* the span offsets the quad tree of bucket b (counted from 0) leads to
SpanOffsets(buf, b) ==
  LET e == IndexEntries(buf)[b + 1].v
  IN  IF e = 0 \/ ItemAt(buf, e) = 0 \/ ~ IsQuadTree(buf[ItemAt(buf, e)]) THEN <<>>
      ELSE LET q == buf[ItemAt(buf, e)].v.entries
           IN  [j \in 1 .. Len(q) |-> q[j].offset]

RECURSIVE SeqToBag(_)
SeqToBag(s) == IF s = <<>> THEN EmptyBag ELSE SetToBag({s[1]}) (+) SeqToBag(Tail(s))

RECURSIVE SpanPayloads(_, _)
SpanPayloads(buf, offs) ==
  IF offs = <<>> THEN EmptyBag
  ELSE SeqToBag(ReadSpan(buf, offs[1]).payloads) (+) SpanPayloads(buf, Tail(offs))

\* the payloads a reader finds in bucket b
BucketPayloads(buf, b) == SpanPayloads(buf, SpanOffsets(buf, b))

Buckets == 0 .. kMaxZoomLevel - pk_tile.z

\* the re-serialized inputs whose first zoom level puts them into bucket b
ExpectedPayloads(b) ==
  LET in_b == SelectSeq(pk_strings,
                LAMBDA s : (IF s.minz > pk_tile.z THEN s.minz - pk_tile.z ELSE 0) = b)
  IN  SeqToBag([i \in 1 .. Len(in_b) |-> serialize_feature(deserialize_feature(in_b[i]).feature)])

RECURSIVE Concat(_)
Concat(ss) == IF ss = <<>> THEN <<>> ELSE Head(ss) \o Concat(Tail(ss))

AllSpanOffsets(buf) ==
  Concat([b \in 1 .. kMaxZoomLevel + 1 - pk_tile.z |-> SpanOffsets(buf, b - 1)])

PackWellFormed(buf) ==
  /\ Len(buf) >= 2 /\ buf[1].k = "u32" /\ buf[2].k = "u32"
  /\ IndexStart(buf) > 2
  /\ Len(IndexEntries(buf)) = kMaxZoomLevel - pk_tile.z + 1
  /\ \A i \in IndexStart(buf) .. Len(buf) : buf[i].k = "varint"

\* C5: in a pack that pack_features returns, the header count is the number
\* of inputs, the payloads of the spans of bucket b are, as a multiset, the
\* re-serialized inputs f with max(T.z, f.min_z) - T.z = b, no span belongs
\* to two buckets, and no payload lies outside the spans.
C5_EveryFeatureOnceInItsBucket ==
  pk_pc = "done" =>
    /\ PackWellFormed(pk_buf)
    /\ pk_buf[1].v = Len(pk_strings)
    /\ \A b \in Buckets : BucketPayloads(pk_buf, b) = ExpectedPayloads(b)
    /\ NoDup(AllSpanOffsets(pk_buf))
    /\ Cardinality({ i \in 1 .. Len(pk_buf) :
                       pk_buf[i].k = "bytes" /\ ~ IsQuadTree(pk_buf[i]) }) = Len(pk_strings)

\* a pack with two features in one span and a feature in another bucket
C5_Witness ==
  /\ pk_pc = "done"
  /\ PackWellFormed(pk_buf)
  /\ \E i \in 1 .. Len(AllSpanOffsets(pk_buf)) :
       Len(ReadSpan(pk_buf, AllSpanOffsets(pk_buf)[i]).payloads) >= 2
  /\ \E b \in Buckets : b > 0 /\ BucketPayloads(pk_buf, b) # EmptyBag

\* C7: in a pack that pack_features returns, index_offset is the offset of
\* the index array, which ends the buffer and has MAX_Z - T.z + 1 entries; the
\* entry of an empty bucket is 0; the entry of any other bucket is the offset
\* of its quad tree, >= 8 and < index_offset; all spans lie before the index
\* array, end with a 0 varint and hold payloads of 32 bytes or more.
C7_PackLayout ==
  pk_pc = "done" =>
    /\ PackWellFormed(pk_buf)
    /\ \A i \in 3 .. IndexStart(pk_buf) - 1 :
         (pk_buf[i].k = "varint" \/ pk_buf[i].k = "bytes")
           /\ BufSize(SubSeq(pk_buf, 1, i)) <= pk_buf[2].v
    /\ \A b \in Buckets :
         LET e == IndexEntries(pk_buf)[b + 1].v
         IN  IF pk_by_min_z[b + 1] = <<>> THEN e = 0
             ELSE /\ e >= 8 /\ e < pk_buf[2].v
                  /\ ItemAt(pk_buf, e) # 0
                  /\ pk_buf[ItemAt(pk_buf, e)] = Bytes(pk_quad_trees[b + 1], pk_quad_trees[b + 1].n)
                  /\ Len(SpanOffsets(pk_buf, b)) >= 1
    /\ \A i \in 1 .. Len(AllSpanOffsets(pk_buf)) :
         LET off == AllSpanOffsets(pk_buf)[i]
             r   == ReadSpan(pk_buf, off)
         IN  /\ off >= 8 /\ off < pk_buf[2].v
             /\ r.ok
             /\ Len(r.payloads) >= 1
             /\ \A j \in 1 .. Len(r.payloads) : r.payloads[j].n >= 32

\* a pack with empty buckets and two quad trees
C7_Witness ==
  /\ pk_pc = "done"
  /\ PackWellFormed(pk_buf)
  /\ \E b \in Buckets : IndexEntries(pk_buf)[b + 1].v = 0
  /\ \E b1, b2 \in Buckets :
       b1 # b2 /\ IndexEntries(pk_buf)[b1 + 1].v # 0 /\ IndexEntries(pk_buf)[b2 + 1].v # 0

-----------------------------------------------------------------------------
(* Claims about pack_features(handle), checked under SpecPackRun *)

\* the ids of the features of an entry of the table: the strings of a raw
\* entry, the payloads of a pack
EntryFeatureIds(e) ==
  IF e.val.k = "raw" THEN { e.val.strings[i].id : i \in 1 .. Len(e.val.strings) }
  ELSE { e.val.buf[i].v.id : i \in { j \in 1 .. Len(e.val.buf) :
                                      e.val.buf[j].k = "bytes" /\ ~ IsQuadTree(e.val.buf[j]) } }

\* C6: in every committed state of the features table, every ingested
\* feature is in a raw entry or in a pack.
C6_NoFeatureOutsideTable ==
  \A f \in rn_ingested : \E e \in db_features : f.id \in EntryFeatureIds(e)

-----------------------------------------------------------------------------
(* Claims about shift, checked under SpecShift *)

\* floor division of both coordinates of every point of a list of rings
FloorRings(rings, z) ==
  [l \in 1 .. Len(rings) |->
    [i \in 1 .. Len(rings[l]) |->
      << rings[l][i][1] \div (2 ^ (20 - z)), rings[l][i][2] \div (2 ^ (20 - z)) >>]]

\* C10: after shift(g, z) every coordinate of every point of g is its floor
\* division by 2^(20 - z), for point, polyline and polygon; null is unchanged.
C10_ShiftEveryVariant ==
  sh_pc = "done" =>
    CASE sh_in.kind = "null"  -> sh_geo = sh_in
      [] sh_in.kind = "point" ->
           sh_geo = [kind |-> "point",
                     xy |-> << sh_in.xy[1] \div (2 ^ (20 - sh_z)),
                               sh_in.xy[2] \div (2 ^ (20 - sh_z)) >>]
      [] OTHER -> sh_geo = [kind |-> sh_in.kind,
                            geometry_ |-> FloorRings(sh_in.geometry_, sh_z)]

MaxTileXY == 2       \* largest tile column and row of the tiles looked at

\* the tiles of zoom z looked at; their pixel bounds are below 2^31
ShiftTiles(z) ==
  IF z < 18 THEN {} ELSE { Tile(z, x, y) : x, y \in 0 .. MaxTileXY }

\* the points of a geometry and of the geometry shift made of it, pairwise
PointPairs(in, out) ==
  IF in.kind = "null" THEN {}
  ELSE IF in.kind = "point" THEN { <<in.xy, out.xy>> }
  ELSE UNION { { <<in.geometry_[l][i], out.geometry_[l][i]>> :
                   i \in 1 .. Len(in.geometry_[l]) } : l \in 1 .. Len(in.geometry_) }

InPixelBounds(p, t) ==
  LET b == insert_bounds(t)
  IN  b.minx <= p[1] /\ p[1] <= b.maxx /\ b.miny <= p[2] /\ p[2] <= b.maxy

\* C11 (as claimed): shift maps every point inside the pixel bounds of a
\* tile (z, x, y) to a point with both coordinates in [0, 4096].
C11_ShiftIntoExtent ==
  sh_pc = "done" =>
    \A t \in ShiftTiles(sh_z) : \A pq \in PointPairs(sh_in, sh_geo) :
      InPixelBounds(pq[1], t) =>
        /\ 0 <= pq[2][1] /\ pq[2][1] <= kTileSize
        /\ 0 <= pq[2][2] /\ pq[2][2] <= kTileSize

\* C11 (amended): shift maps every point of a point or polyline geometry
\* that lies inside the pixel bounds of a tile (z, x, y) to a point in
\* [4096 x, 4096 (x + 1)] x [4096 y, 4096 (y + 1)].
C11_ShiftIntoTileExtent ==
  (sh_pc = "done" /\ sh_in.kind \in {"point", "polyline"}) =>
    \A t \in ShiftTiles(sh_z) : \A pq \in PointPairs(sh_in, sh_geo) :
      InPixelBounds(pq[1], t) =>
        /\ kTileSize * t.x <= pq[2][1] /\ pq[2][1] <= kTileSize * (t.x + 1)
        /\ kTileSize * t.y <= pq[2][2] /\ pq[2][2] <= kTileSize * (t.y + 1)

\* a polyline shifted by one bit with a point in a tile of column 1
C11_Witness ==
  /\ sh_pc = "done"
  /\ sh_in.kind = "polyline"
  /\ sh_z = 19
  /\ \E pq \in PointPairs(sh_in, sh_geo) : \E t \in ShiftTiles(sh_z) :
       t.x = 1 /\ InPixelBounds(pq[1], t) /\ pq[2] # pq[1]

-----------------------------------------------------------------------------
(* Claims about clip, checked under SpecClip *)

\* C12: clip of a point returns the point unchanged iff it lies within the
\* closed bounds (edges and corners included), and null otherwise.
C12_ClipPoint ==
  (cl_pc = "done" /\ cl_in.kind = "point") =>
    LET x == cl_in.xy[1]
        y == cl_in.xy[2]
        within == cl_bounds.minx <= x /\ x <= cl_bounds.maxx
                    /\ cl_bounds.miny <= y /\ y <= cl_bounds.maxy
    IN  /\ within <=> cl_out = cl_in
        /\ ~ within <=> cl_out = [kind |-> "null"]

\* the test of the point (20, 12) on the edge of the bounds (10, 10, 20, 20)
C12_Witness ==
  /\ cl_pc = "done"
  /\ cl_bounds = [minx |-> 10, miny |-> 10, maxx |-> 20, maxy |-> 20]
  /\ cl_in = [kind |-> "point", xy |-> <<20, 12>>]
  /\ cl_out = cl_in

Sign(v) == IF v > 0 THEN 1 ELSE IF v < 0 THEN -1 ELSE 0

Abs(v) == IF v < 0 THEN -v ELSE v

\* the points with integer coordinates of the segment a -> c, numbered from a
GridPoint(a, c, k) == << a[1] + k * Sign(c[1] - a[1]), a[2] + k * Sign(c[2] - a[2]) >>

GridLen(a, c) == MaxOf({ Abs(c[1] - a[1]), Abs(c[2] - a[2]) })

\* the numbers of the points of the segment that lie in the closed box
GridWithin(a, c, b) ==
  { k \in 0 .. GridLen(a, c) :
      LET g == GridPoint(a, c, k)
      IN  b.minx <= g[1] /\ g[1] <= b.maxx /\ b.miny <= g[2] /\ g[2] <= b.maxy }

SingleSegment(g) ==
  g.kind = "polyline" /\ Len(g.geometry_) = 1 /\ Len(g.geometry_[1]) = 2

\* C13: clip of a polyline of one segment returns the part of the segment in
\* the closed box: null when no point of the segment is in the box, else the
\* segment from its first to its last point in the box, so that a segment
\* inside is unchanged and an endpoint inside is kept.
C13_ClipSegment ==
  (cl_pc = "done" /\ SingleSegment(cl_in)) =>
    LET a == cl_in.geometry_[1][1]
        c == cl_in.geometry_[1][2]
        K == GridWithin(a, c, cl_bounds)
    IN  IF K = {} THEN cl_out = [kind |-> "null"]
        ELSE /\ cl_out = [kind |-> "polyline",
                          geometry_ |-> << << GridPoint(a, c, MinOf(K)),
                                              GridPoint(a, c, MaxOf(K)) >> >>]
             /\ (0 \in K => cl_out.geometry_[1][1] = a)
             /\ (GridLen(a, c) \in K => cl_out.geometry_[1][2] = c)
             /\ (K = 0 .. GridLen(a, c) => cl_out = cl_in)

\* the test of the segment (12, 8) -> (12, 12), cut at the edge y = 10
C13_Witness ==
  /\ cl_pc = "done"
  /\ cl_bounds = [minx |-> 10, miny |-> 10, maxx |-> 20, maxy |-> 20]
  /\ cl_in = [kind |-> "polyline", geometry_ |-> << << <<12, 8>>, <<12, 12>> >> >>]
  /\ cl_out = [kind |-> "polyline", geometry_ |-> << << <<12, 10>>, <<12, 12>> >> >>]

-----------------------------------------------------------------------------
(* Claims about tile_builder *)

HasLayer(f) == kLayerKey \in DOMAIN f.meta_

\* the builders after the given add_feature calls on a new tile_builder
RECURSIVE Replay(_, _, _)
Replay(builders, spec, calls) ==
  IF calls = <<>> THEN builders
  ELSE Replay(impl_add_feature(builders, spec, Head(calls)).builders, spec, Tail(calls))

WithLayer(calls) == SelectSeq(calls, HasLayer)

\* C14: add_feature with a feature whose meta has no "layer" key leaves the
\* builder as it was: the builders, and the result of finish(), are those of
\* the same calls without the features that have no layer; no layer builder
\* exists that no feature with a layer named; one line is logged per such call
C14_SkipWithoutLayer ==
  tb_pc \in {"open", "finished"} =>
    /\ tb_builders = Replay(NoBuilders, tb_spec, WithLayer(tb_calls))
    /\ \A n \in DOMAIN tb_builders :
         \E i \in 1 .. Len(tb_calls) :
           HasLayer(tb_calls[i]) /\ tb_calls[i].meta_[kLayerKey] = n
    /\ tb_skipped = Len(tb_calls) - Len(WithLayer(tb_calls))
    /\ tb_pc = "finished" =>
         tb_out = impl_finish(Replay(NoBuilders, tb_spec, WithLayer(tb_calls)))

\* a finished tile with a layer, one of whose calls had no layer key
C14_Witness ==
  /\ tb_pc = "finished"
  /\ tb_out # <<>>
  /\ tb_skipped = 1
  /\ \E i \in 1 .. Len(tb_calls) : ~HasLayer(tb_calls[i])

\* the feature has a layer and its geometry is not null after simplify and clip
Kept(f) ==
  /\ HasLayer(f)
  /\ clip(simplify(f.geometry_, tb_spec.z), tb_spec.draw_bounds_).kind # "null"

\* the calls, in order, that are kept and name the layer
KeptIn(name) ==
  LET Test(f) == Kept(f) /\ f.meta_[kLayerKey] = name
  IN  SelectSeq(tb_calls, Test)

\* C15: finish() emits exactly one Layer per layer name that got a feature
\* with geometry left after simplify and clip; a layer whose features were all
\* dropped is omitted; a dropped feature adds no Feature message and no entry
\* to the key and value tables of its layer
C15_LayersWithGeometry ==
  tb_pc = "finished" =>
    /\ { tb_out[i].name : i \in 1 .. Len(tb_out) }
         = { tb_calls[i].meta_[kLayerKey] :
               i \in { j \in 1 .. Len(tb_calls) : Kept(tb_calls[j]) } }
    /\ \A i, j \in 1 .. Len(tb_out) : i # j => tb_out[i].name # tb_out[j].name
    /\ \A i \in 1 .. Len(tb_out) :
         LET kept == KeptIn(tb_out[i].name)
         IN  /\ Len(tb_out[i].features) = Len(kept)
             /\ SeqToSet(tb_out[i].keys)
                  \subseteq UNION { DOMAIN kept[j].meta_ : j \in 1 .. Len(kept) }
             /\ SeqToSet(tb_out[i].values)
                  \subseteq UNION { { kept[j].meta_[k] : k \in DOMAIN kept[j].meta_ } :
                                    j \in 1 .. Len(kept) }

\* a finished tile with a layer that got a kept feature and a dropped feature
\* with a key the kept one has not
C15_Witness ==
  /\ tb_pc = "finished"
  /\ tb_out # <<>>
  /\ \E i, j \in 1 .. Len(tb_calls) :
       /\ Kept(tb_calls[i])
       /\ HasLayer(tb_calls[j]) /\ ~Kept(tb_calls[j])
       /\ tb_calls[i].meta_[kLayerKey] = tb_calls[j].meta_[kLayerKey]
       /\ kKeyPlain \in DOMAIN tb_calls[j].meta_ \ DOMAIN tb_calls[i].meta_

\* the meta key is written to the tags
Tagged(key) == key # kLayerKey /\ ~starts_with(key, kInternalPrefix)

\* C16: in every emitted layer the key table and the value table have no
\* duplicates, no key is "layer" or begins with "__", every tag list has even
\* length, every pair of it indexes the tables at an entry of the feature's
\* meta, and every meta entry that is not skipped has exactly one pair
C16_InternedTables ==
  tb_pc = "finished" =>
    \A i \in 1 .. Len(tb_out) :
      LET layer == tb_out[i]
          kept  == KeptIn(layer.name)
      IN  /\ NoDup(layer.keys)
          /\ NoDup(layer.values)
          /\ \A key \in SeqToSet(layer.keys) : Tagged(key)
          /\ \A j \in 1 .. Len(layer.features) :
               LET tags  == layer.features[j].tags
                   meta  == kept[j].meta_
                   Pairs == 1 .. (Len(tags) \div 2)
               IN  /\ j <= Len(kept)
                   /\ Len(tags) % 2 = 0
                   /\ \A n \in Pairs :
                        /\ tags[2 * n - 1] < Len(layer.keys)
                        /\ tags[2 * n] < Len(layer.values)
                        /\ layer.keys[tags[2 * n - 1] + 1] \in DOMAIN meta
                        /\ meta[layer.keys[tags[2 * n - 1] + 1]]
                             = layer.values[tags[2 * n] + 1]
                   /\ \A key \in DOMAIN meta :
                        Tagged(key) =>
                          Cardinality({ n \in Pairs :
                                          layer.keys[tags[2 * n - 1] + 1] = key }) = 1

\* a layer with two features that share a key and a value, one of them with an
\* internal key as well
C16_Witness ==
  /\ tb_pc = "finished"
  /\ \E i \in 1 .. Len(tb_out) :
       /\ Len(tb_out[i].features) = 2
       /\ Len(tb_out[i].keys) = 2
       /\ Len(tb_out[i].values) = 1
       /\ tb_out[i].features[2].tags = <<1, 0, 0, 0>>
       /\ kKeyInternal \in DOMAIN KeptIn(tb_out[i].name)[2].meta_

-----------------------------------------------------------------------------
(* Claims about the batches of pack_features(handle), checked under SpecPackRun *)

\* C17: a batch whose transaction raised an error is tried again, three times
\* at most; the run is fatal only when the first try and three retries failed.
C17_FatalAfterThreeRetries ==
  rn_pc = "fatal" => rn_failures = 1 + 3

\* the bytes of the feature packs held in packed_features
RECURSIVE PackedFeaturesSize(_)
PackedFeaturesSize(packed_features) ==
  IF packed_features = <<>> THEN 0
  ELSE BufSize(Head(packed_features)[2]) + PackedFeaturesSize(Tail(packed_features))

\* C19: the feature packs held in memory for a batch never have more than
\* 64 MiB in total.
C19_BatchWithinThreshold ==
  PackedFeaturesSize(rn_packed_features) <= kPackBatchThreshold

-----------------------------------------------------------------------------
(* Claims about the server, checked under SpecServer *)

\* C18: every GET request whose handler has run was answered exactly once:
\* with status 500 and no body when the render failed, with status 200 and
\* the bytes of the tile when it succeeded.
C18_EveryGetAnswered ==
  \A i \in sv_handled :
    sv_requests[i].method = "GET" =>
      /\ Len(sv_replies[i]) = 1
      /\ IF render_tile(sv_failing, sv_requests[i].tile).ok
         THEN /\ sv_replies[i][1].status = "ok"
              /\ sv_replies[i][1].content
                   = render_tile(sv_failing, sv_requests[i].tile).content
         ELSE /\ sv_replies[i][1].status = "internal_server_error"
              /\ sv_replies[i][1].content = <<>>

-----------------------------------------------------------------------------
(* Claims about the transactions of a prepare worker, checked under SpecPrepare *)

\* the tiles table shows this run's put of tile t
PutVisible(t) ==
  \E e \in tiles_db : e[2].run = run /\ e[1][1] = t.z /\ e[1] = make_tile_key(t)

\* C20: a worker has its write transaction open only after every task of its
\* batch was rendered, and its read transaction only before the first render;
\* while it renders it has no transaction and does not hold the mutex; the
\* tiles table shows none of the tiles of a batch until the batch is written,
\* and every tile with a result of every batch that was written.
C20_BatchWrittenAtOnce ==
  /\ \A w \in Workers :
       /\ txn[w] = "write" =>
            /\ pc[w] = "write"
            /\ \A i \in 1 .. Len(batch[w]) :
                 batch[w][i].result_ = RunResult(batch[w][i].tile_)
       /\ txn[w] = "read" =>
            \A i \in 1 .. Len(batch[w]) : batch[w][i].result_ = NoResult
       /\ pc[w] = "render" => txn[w] = "none" /\ mutex_ # w
       /\ \A i \in 1 .. Len(batch[w]) : ~ PutVisible(batch[w][i].tile_)
  /\ \A i \in 1 .. Len(issued) :
       \/ \A it \in features_idx : ~ Intersects(issued[i], it)
       \/ \E w \in Workers : \E j \in 1 .. Len(batch[w]) : batch[w][j].tile_ = issued[i]
       \/ PutVisible(issued[i])

\* a worker is about to write a batch of several tiles, one of them with a
\* result, while the other worker renders and a batch of this run is written
C20_Witness ==
  \E w, v \in Workers :
    /\ w # v
    /\ pc[w] = "write"
    /\ txn[w] = "write"
    /\ Len(batch[w]) >= 2
    /\ \E i \in 1 .. Len(batch[w]) : batch[w][i].result_.has
    /\ pc[v] = "render"
    /\ \E i \in 1 .. Len(issued) : PutVisible(issued[i])

-----------------------------------------------------------------------------
(* Claims about get_batch at zoom levels beyond 8 (SpecDeepRun) *)

\* a step that runs the body of the loop of get_batch once
BatchPassStep == pc[1] = "in_get_batch" /\ Len(issued') = Len(issued) + 1

\* a step in which get_batch returns
BatchReturnStep == pc[1] = "in_get_batch" /\ pc'[1] # "in_get_batch"

\* C22: in get_batch, for every current zoom zc in 0..max_z the increment added
\* to the loop counter is 2^max(8 - zc, 0): 2^(8 - zc) below zoom 8 and exactly 1
\* from zoom 8 on (the counter is compared with 256 only, so it is followed up to
\* 256).
C22_IncrementIsPowerOfTwo ==
  [][ (BatchPassStep /\ m'.curr_zoomlevel_ <= m'.max_zoomlevel_) =>
        loop_i' = MinOf({256, loop_i + Pow2(MaxOf({8 - m'.curr_zoomlevel_, 0}))}) ]_vars

\* the zoom levels of a sequence of tiles never go down
ZoomOrdered(tiles) ==
  \A i \in 1 .. Len(tiles) - 1 : tiles[i].z <= tiles[i + 1].z

\* C21: get_batch returns a non-empty batch of at most 2^8 tasks when the
\* current zoom is at most max_z at the call and an empty batch when it is
\* beyond max_z; the current zoom never decreases, tiles are issued in
\* non-decreasing zoom order, and once the zoom is beyond max_z (the first empty
\* batch) every later call returns an empty batch too.
C21_BatchBounded ==
  [][ /\ BatchReturnStep =>
           /\ Len(batch[1]) <= 256
           /\ batch[1] = <<>> => m.curr_zoomlevel_ > m.max_zoomlevel_
           /\ batch[1] # <<>> => batch[1][1].tile_.z <= m.max_zoomlevel_
      /\ (phase = "running" /\ phase' = "running") =>
           /\ m'.curr_zoomlevel_ >= m.curr_zoomlevel_
           /\ m.curr_zoomlevel_ > m.max_zoomlevel_ =>
                /\ m'.curr_zoomlevel_ > m'.max_zoomlevel_
                /\ issued' = issued
      /\ ZoomOrdered(issued') ]_vars

-----------------------------------------------------------------------------
(* Claims about a complete pack_features(handle), checked under SpecPackRun *)

\* the entries of the table that belong to index tile number t
EntriesOf(t) == { e \in db_features : feature_key_to_tile(e.key) = RunTiles[t] }

\* the ids of the features ingested for index tile number t
IngestedIds(t) == { f.id : f \in { g \in rn_ingested : g.id \div 10 = t } }

\* the raw entries left in the table
RawEntries == { e \in db_features : e.val.k = "raw" }

\* C23: when pack_features(handle) has run to its end, every index tile that
\* had raw entries has exactly one entry, a pack of all its raw features, at
\* the key of the tile; while it runs, the entries a batch leaves behind are
\* whole index tiles, resume_key is the key of the first raw entry left, and
\* the cursor of a batch visits raw entries only, none of the packs written
\* by earlier batches.
C23_PackedOnceEach ==
  /\ rn_pc = "done" =>
       \A t \in 1 .. Len(RunTiles) :
         IF IngestedIds(t) = {} THEN EntriesOf(t) = {}
         ELSE /\ Cardinality(EntriesOf(t)) = 1
              /\ \A e \in EntriesOf(t) :
                   /\ e.val.k = "pack"
                   /\ e.key = make_feature_key(RunTiles[t])
                   /\ EntryFeatureIds(e) = IngestedIds(t)
  /\ rn_pc \in {"collect", "sync", "writeback"} =>
       /\ \A t \in 1 .. Len(RunTiles) :
            \/ EntriesOf(t) \cap RawEntries = {}
            \/ /\ EntriesOf(t) \subseteq RawEntries
               /\ UNION { EntryFeatureIds(e) : e \in EntriesOf(t) } = IngestedIds(t)
               /\ \A i \in 1 .. Len(rn_packed_features) :
                    feature_key_to_tile(rn_packed_features[i][1]) # RunTiles[t]
       /\ IF RawEntries = {} THEN rn_resume_key = NoKey
          ELSE /\ rn_resume_key \in { e.key : e \in RawEntries } \cup {NoKey}
               /\ \A e \in RawEntries : ~ KeyLess(e.key, rn_resume_key)
               /\ rn_resume_key = NoKey => rn_packed_features = <<>>
  /\ rn_pc = "collect" =>
       \A e \in SeqToSet(CursorFrom(db_features, rn_resume_key)) : e.val.k = "raw"

\* a second batch is about to start: a pack of the first batch is in the
\* table, raw entries are left and resume_key is set
C23_Witness ==
  /\ rn_pc = "collect"
  /\ rn_resume_key # NoKey
  /\ RawEntries # {}
  /\ \E e \in db_features : e.val.k = "pack"

-----------------------------------------------------------------------------
(* Claims about the quad keys and spans of pack_features(tile, ...), checked
   under SpecPackTile *)

\* the ancestor of tile t at zoom z <= t.z
AncestorAt(t, z) == Tile(z, t.x \div Pow2(t.z - z), t.y \div Pow2(t.z - z))

\* the packable features of all buckets
Packables == UNION { SeqToSet(pk_by_min_z[b]) : b \in 1 .. Len(pk_by_min_z) }

\* C24 (as claimed): the quad key of a feature with best tile B in index tile
\* T has B.z - T.z elements, the i-th being the quad_pos of B's ancestor at
\* zoom T.z + i; it is empty iff B = T and leaves out the quad_pos of T.
C24_QuadKeyBelowRoot ==
  \A f \in Packables :
    /\ Len(f.quad_key_) = f.best_tile_.z - pk_tile.z
    /\ \A i \in 1 .. Len(f.quad_key_) :
         f.quad_key_[i] = quad_pos(AncestorAt(f.best_tile_, pk_tile.z + i))
    /\ f.quad_key_ = <<>> <=> f.best_tile_ = pk_tile

\* C24 (amended): the quad key is empty iff B = T; for a descendant B of T it
\* has B.z - T.z + 1 elements, the quad_pos of T first and then the quad_pos
\* of B's ancestor at each zoom T.z + 1 .. B.z.
C24_QuadKeyFromRoot ==
  \A f \in Packables :
    f.quad_key_ =
      IF f.best_tile_ = pk_tile THEN <<>>
      ELSE [i \in 1 .. f.best_tile_.z - pk_tile.z + 1 |->
              quad_pos(AncestorAt(f.best_tile_, pk_tile.z + i - 1))]

\* two features pushed down to different tiles, two levels or more below
\* the index tile
C24_Witness ==
  \E f, g \in Packables :
    /\ f.best_tile_.z >= pk_tile.z + 2
    /\ g.best_tile_.z >= pk_tile.z + 2
    /\ g.best_tile_ # f.best_tile_

\* the quad-tree inputs of bucket b (counted from 1) once its spans are written
BucketInputs(b) == pk_quad_trees[b].entries

\* the quad key the span of a quad-tree input belongs to
InputKey(in) == make_quad_key(pk_tile, in.tile).key

\* the features of bucket b with quad key k
WithKey(b, k) == SelectSeq(pk_by_min_z[b], LAMBDA f : f.quad_key_ = k)

\* C25: in every bucket whose spans are written, every distinct quad key has
\* exactly one span and one quad-tree input (best_tile, span_offset, 1), the
\* spans are in ascending lexicographic order of their quad keys, the span of
\* a key holds the payloads of the features with that key, and all of those
\* have the best_tile of the input.
C25_OneSpanPerQuadKey ==
  pk_pc \in {"spans", "done"} =>
    \A b \in 1 .. pk_b :
      /\ Len(BucketInputs(b)) =
           Cardinality({ pk_by_min_z[b][i].quad_key_ : i \in 1 .. Len(pk_by_min_z[b]) })
      /\ \A j \in 1 .. Len(BucketInputs(b)) :
           LET in == BucketInputs(b)[j]
               fs == WithKey(b, InputKey(in))
           IN  /\ in.count = 1
               /\ fs # <<>>
               /\ \A i \in 1 .. Len(fs) : fs[i].best_tile_ = in.tile
               /\ ReadSpan(pk_buf, in.offset).ok
               /\ SeqToBag(ReadSpan(pk_buf, in.offset).payloads)
                    = SeqToBag([i \in 1 .. Len(fs) |-> fs[i].feature_])
               /\ \A k \in 1 .. j - 1 : LexLess(InputKey(BucketInputs(b)[k]), InputKey(in))

\* a bucket with the spans of two quad keys
C25_Witness ==
  /\ pk_pc = "done"
  /\ \E b \in 1 .. pk_b : Len(BucketInputs(b)) >= 2

\* the arrangements of the elements of a sequence
Arrangements(seq) ==
  { [i \in 1 .. Len(seq) |-> seq[p[i]]] :
      p \in { q \in [1 .. Len(seq) -> 1 .. Len(seq)] :
                \A i, j \in 1 .. Len(seq) : i # j => q[i] # q[j] } }

\* C26: the features of a bucket are ordered by (quad_key, best_tile,
\* payload), which leaves one order only: the pack returned is the same
\* bytes for every arrangement of the input strings.
C26_SameBytesForEveryOrder ==
  pk_pc = "done" =>
    \A strings \in Arrangements(pk_strings) :
      pk_buf = pack_features(pk_tile, strings).buf

-----------------------------------------------------------------------------
(* Claims about the termination of prepare_tiles, checked under
   SpecDeepRunFair *)

C27_RunWithFeaturesTerminates ==
  (phase = "running" /\ features_idx # {})
    ~> (phase = "idle" /\ AllJoined /\ meta_db.has /\ meta_db.run = run)

-----------------------------------------------------------------------------
(* Claims about the statistics and the tiles table of a run, checked under
   SpecPrepare *)

\* the issued tiles of zoom z whose render gave no result (size 0)
EmptyTiles(z) ==
  { i \in 1 .. Len(issued) : issued[i].z = z /\ ~ RunResult(issued[i]).has }

\* C28: at all times n_finished[z] <= n_total[z]; once every tile is finished
\* n_finished[z] = n_total[z] and n_empty[z] is the number of tiles of zoom z
\* whose render result was empty.
C28_EmptyCountsEmptyTiles ==
  \A z \in DOMAIN m.stats_ :
    /\ m.stats_[z].n_finished_ <= m.stats_[z].n_total_
    /\ (run > 0 /\ AllJoined) =>
         /\ m.stats_[z].n_finished_ = m.stats_[z].n_total_
         /\ m.stats_[z].n_empty_ = Cardinality(EmptyTiles(z))

-----------------------------------------------------------------------------
(* Claims about the tiles table after a repeated run, checked under
   SpecReprepare *)

\* C29: when a run has ended, the tiles table holds, for every tile the run
\* issued, this run's bytes if the render produced a result and no entry if
\* it produced none, whatever an earlier run stored under the key.
C29_TableReflectsLastRun ==
  (phase = "idle" /\ run > 0) =>
    \A i \in 1 .. Len(issued) :
      IF RunResult(issued[i]).has
      THEN <<make_tile_key(issued[i]), RunResult(issued[i])>> \in tiles_db
      ELSE \A e \in tiles_db : e[1] # make_tile_key(issued[i])

-----------------------------------------------------------------------------
(* Claims about the end of find_best_tile, checked under SpecBestTile *)

\* the children of tile t whose insert bounds the bounding box overlaps
MatchingChildren(t) ==
  { i \in 1 .. 4 : ChildMatches(bounding_box(bt_geo), insert_bounds(direct_children(t)[i])) }

\* C30: find_best_tile(T, f) makes at most MAX_Z - T.z descent steps, each one
\* level down; "at least one child must match" fails only at T itself and
\* only when the bounding box overlaps the insert bounds of no child of T;
\* below T at least one child matches at every level.
C30_FailureOnlyAtRoot ==
  /\ Len(bt_path) - 1 <= kMaxZoomLevel - bt_root.z
  /\ bt_best.z = bt_root.z + Len(bt_path) - 1
  /\ bt_pc = "fail" => bt_best = bt_root /\ MatchingChildren(bt_root) = {}
  /\ (bt_pc = "loop" /\ bt_best.z < kMaxZoomLevel /\ MatchingChildren(bt_best) = {}) =>
       bt_best = bt_root
  /\ (bt_pc = "loop" /\ bt_best # bt_root /\ bt_best.z < kMaxZoomLevel) =>
       MatchingChildren(bt_best) # {}

\* the verify has failed for a feature beside an index tile of zoom 10
C30_Witness ==
  /\ bt_pc = "fail"
  /\ bt_root.z = 10
  /\ MatchingChildren(bt_root) = {}

=============================================================================
